---- MODULE Spec2Model ----
(***************************************************************************)
(* Model of TiledArray's asynchronous reduction task                       *)
(* (src/src/TiledArray/reduce_task.h), instantiated with a contract-and-   *)
(* reduce style operation (src/src/TiledArray/tile_op/contract_reduce.h).  *)
(*                                                                         *)
(* Threads of control:                                                     *)
(*   - the caller of ReduceTask::add / ReduceTask::submit ("main"),        *)
(*   - one ready() call per argument, run either by the caller (futures    *)
(*     already set at add time) or by the thread that sets the last        *)
(*     future of the argument,                                             *)
(*   - one reducer task per spawned reduce_result_object /                 *)
(*     reduce_object_object, run by a worker of the task queue,            *)
(*   - the ReduceTaskImpl task itself, run when its dependency counter     *)
(*     reaches zero.                                                       *)
(* Every step between two accesses to shared state is one action.          *)
(*                                                                         *)
(* The module also models SparseShape (src/unnamed/part_000): the norms    *)
(* are floats (IEEE 754 binary32, every operation rounded as the hardware  *)
(* rounds it), the static threshold_ is a variable, and a client           *)
(* constructs one shape and calls its operations (ShapeSpec); the record   *)
(* last keeps the operands and the result of the last call. A failed       *)
(* TA_ASSERT throws (TA_DEFAULT_ERROR, src/CMakeLists.txt).                *)
(***************************************************************************)
EXTENDS Integers, Sequences, FiniteSets, TLC

\* ---- bounds of the model ----
MaxArgs == 3

\* the number of SparseShape calls in a run
MaxOps == 3

\* the number of accesses to a freed ReduceTaskImpl in a run that find its
\* memory reused
MaxReuse == 1

\* the dependency counter is followed down to -MaxUnderflow
MaxUnderflow == 1

\* the processes of the world a collective constructor call sums over
NProcs == 2

Args == 1..MaxArgs

RECURSIVE Pow2(_)
Pow2(n) == IF n = 0 THEN 1 ELSE 2 * Pow2(n - 1)

\* the value held by the futures of the i-th added argument (in pair mode the
\* contraction of its two tiles): distinct powers of two, so that a reduced
\* value determines the arguments folded into it
ArgValue(i) == Pow2(i - 1)

VARIABLES
  arity,          \* futures per argument: 1 = ReduceTask, 2 = ReducePairTask
  has_callback,   \* ReduceTaskImpl::callback_ != NULL
  op_,            \* ReduceTaskImpl::op_: the state of the ContractReduce functor
  pimpl_,         \* ReduceTask::pimpl_ != NULL
  count_,         \* ReduceTask::count_
  outstanding,    \* dependency counter of ReduceTaskImpl (TaskInterface)
  implq,          \* ReduceTaskImpl in the task queue: "none", "queued", "done"
  ready_result_,  \* <<>> (null) or <<tile>>
  ready_object_,  \* 0 (NULL) or the parked argument
  lock_,          \* 0 (free) or the holder
  result_,        \* the result future: <<>> (unset) or <<tile>>
  arg,            \* the ReduceObject of every argument
  rpc,            \* position of the ready() call of every argument
  task,           \* the reducer task spawned by the ready() call of an argument
  mainpc,         \* position of the caller thread
  err,            \* assertions that have failed
  consumed,       \* per argument: number of op invocations that read it
  destroyed,      \* per argument: number of ReduceObject::destroy calls
  events,         \* per argument: the calls that touched its ReduceObject, in order
  nFused,         \* number of fused two-argument op invocations
  nMerge,         \* number of result-merge op invocations
  nSet,           \* number of result_.set calls
  nNotify,        \* number of callback_->notify calls
  allSync,        \* every argument so far was ready when it was added
  threshold_,     \* SparseShape<T>::threshold_ (static)
  shape,          \* a SparseShape object: tile_norms_ and size_vectors_
  origin,         \* arguments of the public constructor that built shape
  last,           \* the last SparseShape call: arguments and returned shape
  nops,           \* number of SparseShape calls so far
  gop,            \* the all-reduce a collective constructor call is blocked in
  heap,           \* the buffers of norm tensors and size-vector arrays
  client          \* the caller's tensor and the shape objects of a client

taskVars == <<arity, has_callback, op_, pimpl_, count_, outstanding, implq,
              ready_result_, ready_object_, lock_, result_, arg, rpc, task,
              mainpc, err, consumed, destroyed, events, nFused, nMerge, nSet,
              nNotify, allSync>>

\* the buffers and the objects that refer to them
aliasVars == <<heap, client>>

shapeVars == <<threshold_, shape, origin, last, nops, gop, aliasVars>>

vars == <<taskVars, shapeVars>>

\* ---- the reduction operation ----

\* a tile: empty flag, accumulated value, layout tag set by the final permute
EmptyTile == [empty |-> TRUE, val |-> 0, perm |-> FALSE]

\* the outcome of a call that leaves by an exception (TA_ASSERT throws)
Thrown == [thrown |-> TRUE]

\* a ContractReduce functor: pimpl_ tells whether the shared Impl is there,
\* perm_ is the dimension of Impl::perm_. ContractReduce() has no Impl; the
\* constructor with the default perm argument stores Permutation(), whose
\* dimension is zero
ContractReduce(pimpl, dim) == [pimpl_ |-> pimpl, perm_ |-> dim]

DefaultOp == ContractReduce(FALSE, 0)

\* the functors a client builds with the public constructor: without and
\* with a result permutation
ClientOps == {ContractReduce(TRUE, 0), ContractReduce(TRUE, 2)}

OpIdentity == EmptyTile

\* op(temp): TA_ASSERT(pimpl_); an empty temp gives an empty result, a
\* permutation of dimension zero copies temp, any other permutes it
OpPost(op, temp) ==
  IF ~op.pimpl_ THEN Thrown
  ELSE IF temp.empty THEN EmptyTile
  ELSE IF op.perm_ < 1 THEN temp
  ELSE [empty |-> FALSE, val |-> temp.val, perm |-> TRUE]

OpMerge(result, other) ==
  [empty |-> result.empty /\ other.empty,
   val |-> result.val + other.val, perm |-> FALSE]

\* op(result, left, right): TA_ASSERT(pimpl_), then gemm into result
OpArg(op, result, a) ==
  IF ~op.pimpl_ THEN Thrown
  ELSE IF result.empty THEN [empty |-> FALSE, val |-> a, perm |-> FALSE]
  ELSE [empty |-> FALSE, val |-> result.val + a, perm |-> FALSE]

\* op(result, left1, right1, left2, right2): TA_ASSERT(pimpl_), two gemms
OpArg2(op, result, a1, a2) ==
  IF ~op.pimpl_ THEN Thrown
  ELSE LET r1 == IF result.empty
                 THEN [empty |-> FALSE, val |-> a1, perm |-> FALSE]
                 ELSE [empty |-> FALSE, val |-> result.val + a1, perm |-> FALSE]
       IN [r1 EXCEPT !.val = r1.val + a2]

\* ---- SparseShape: the norm value type ----

\* value_type is float: IEEE 754 binary32, every operation rounded to the
\* nearest value, ties to the even mantissa. A finite value is m * 2^e with
\* m odd and |m| < 2^24, zero is m = 0 and e = 0 (the sign of a zero is not
\* kept); the infinities and NaN carry the exponent 1024
IntAbs(n) == IF n < 0 THEN -n ELSE n

Sign(n) == IF n < 0 THEN -1 ELSE 1

\* the number of binary digits of n >= 0
RECURSIVE BitLen(_)
BitLen(n) ==
  IF n >= 256 THEN 8 + BitLen(n \div 256)
  ELSE IF n >= 16 THEN 4 + BitLen(n \div 16)
  ELSE IF n = 0 THEN 0
  ELSE 1 + BitLen(n \div 2)

Zero == [m |-> 0, e |-> 0]

One == [m |-> 1, e |-> 0]

Infinity(sign) == [m |-> sign, e |-> 1024]

NaN == [m |-> 0, e |-> 1024]

IsNaN(a) == a = NaN

IsInf(a) == a.e = 1024 /\ a.m # 0

\* the sign of a value: -1, 0 or 1
SignOf(a) == IF a.m < 0 THEN -1 ELSE IF a.m > 0 THEN 1 ELSE 0

\* m * 2^e for m >= 0, written with an odd m
RECURSIVE Canon(_, _)
Canon(m, e) ==
  IF m = 0 THEN Zero
  ELSE IF m % 2 = 1 THEN [m |-> m, e |-> e]
  ELSE IF m % 256 = 0 THEN Canon(m \div 256, e + 8)
  ELSE Canon(m \div 2, e + 1)

\* sign * c for a value c >= 0 that needs no more rounding: an infinity when
\* c is 2^128 or more
Signed(sign, c) ==
  IF c.m = 0 THEN Zero
  ELSE IF BitLen(c.m) + c.e > 128 THEN Infinity(sign)
  ELSE [m |-> sign * c.m, e |-> c.e]

\* the digits of x that a float at exponent E cannot keep: those below the
\* 24th digit of x and those below 2^-149
Dropped(x, E) ==
  IF BitLen(x) - 24 > (0 - 149) - E THEN BitLen(x) - 24 ELSE (0 - 149) - E

\* the quotient q of x by 2^s with remainder r, rounded to nearest, a tie
\* (r = half with nothing below) to the even quotient
Nearest(q, r, half, sticky) ==
  IF r > half \/ (r = half /\ (sticky \/ q % 2 = 1)) THEN q + 1 ELSE q

\* x without its last s digits, rounded
Shortened(x, s, sticky) ==
  IF s <= 0 THEN x
  ELSE IF s > 31 THEN 0
  ELSE IF s = 31 THEN Nearest(0, x, 2^30, sticky)
  ELSE Nearest(x \div 2^s, x % 2^s, 2^(s - 1), sticky)

RoundBy(sign, x, E, sticky, s) ==
  Signed(sign, Canon(Shortened(x, s, sticky), IF s <= 0 THEN E ELSE E + s))

\* the float nearest to sign * x * 2^E, x >= 0, where x stands for a real in
\* [x, x + 1) that is above x when sticky holds (x then has 26 digits or
\* more)
Round(sign, x, E, sticky) == RoundBy(sign, x, E, sticky, Dropped(x, E))

\* the float nearest to sign * x.q * 2^(x.E), x.q standing for a real above
\* it when the remainder x.r is not zero
RoundDigits(sign, x) == Round(sign, x.q, x.E, x.r # 0)

\* long division of n * 2^E by d: seven more digits of the quotient per
\* step while the numbers stay below 2^31, one digit otherwise, until 26
\* digits are there or the remainder is zero
RECURSIVE DivLoop(_, _, _, _)
DivLoop(q, r, d, E) ==
  IF r = 0 \/ q >= 67108864 THEN [q |-> q, r |-> r, E |-> E]
  ELSE IF q < 16777216 /\ d <= 16777216
  THEN DivLoop(128 * q + ((128 * r) \div d), (128 * r) % d, d, E - 7)
  ELSE DivLoop(2 * q + (IF r >= d - r THEN 1 ELSE 0),
               IF r >= d - r THEN r - (d - r) ELSE r + r, d, E - 1)

\* the float nearest to sign * (n / d) * 2^E for n >= 0, d > 0
Quotient(sign, n, d, E) == RoundDigits(sign, DivLoop(n \div d, n % d, d, E))

\* the float nearest to the fraction n/d, d # 0: a literal of the client
Rat(n, d) == Quotient(Sign(n) * Sign(d), IntAbs(n), IntAbs(d), 0)

\* value_type(size) of an integer tile extent
FromInt(k) == Round(Sign(k), IntAbs(k), 0, FALSE)

\* hi * 2^24 + lo with hi >= 32: its leading 30 digits x, the exponent E of
\* their last place, and whether a digit below is set; k = 30 - BitLen(hi)
Leading(hi, lo, k) ==
  [x |-> hi * 2^k + (lo \div 2^(24 - k)), E |-> 24 - k,
   sticky |-> lo % 2^(24 - k) # 0]

\* the sum of the partial products hh * 2^24 + mid * 2^12 + ll
Carried(h, t) ==
  Leading(h + (t \div 16777216), t % 16777216,
          30 - BitLen(h + (t \div 16777216)))

Partial(hh, mid, ll) ==
  Carried(hh + (mid \div 4096), (mid % 4096) * 4096 + ll)

\* the product of two mantissas of up to 24 digits, formed from halves of 12
\* digits when it has more than 30
Product(ma, mb) ==
  IF BitLen(ma) + BitLen(mb) <= 30
  THEN [x |-> ma * mb, E |-> 0, sticky |-> FALSE]
  ELSE Partial((ma \div 4096) * (mb \div 4096),
               (ma \div 4096) * (mb % 4096) + (ma % 4096) * (mb \div 4096),
               (ma % 4096) * (mb % 4096))

RoundProduct(sign, E, p) == Round(sign, p.x, E + p.E, p.sticky)

\* left * right
Times(a, b) ==
  IF IsNaN(a) \/ IsNaN(b) THEN NaN
  ELSE IF IsInf(a) \/ IsInf(b)
  THEN (IF a = Zero \/ b = Zero THEN NaN
        ELSE Infinity(SignOf(a) * SignOf(b)))
  ELSE RoundProduct(SignOf(a) * SignOf(b), a.e + b.e,
                    Product(IntAbs(a.m), IntAbs(b.m)))

\* the position above the leading digit of a finite non-zero value
Top(a) == BitLen(IntAbs(a.m)) + a.e

\* ms * 2^d as an integer, and whether digits of ms fall below it
Shifted(ms, d) ==
  IF d >= 0 THEN ms * 2^d ELSE IF d <= 0 - 25 THEN 0 ELSE ms \div 2^(0 - d)

Lost(ms, d) == d < 0 /\ (d <= 0 - 25 \/ ms % 2^(0 - d) # 0)

\* sb * xb + ss * xs at exponent E for xb >= 2^28, where lost tells that xs
\* stands for a real above it
Summed(sb, ss, xb, xs, E, lost) ==
  Round(IF sb = ss \/ lost \/ xb >= xs THEN sb ELSE ss,
        IF sb = ss THEN xb + xs
        ELSE IF lost THEN xb - xs - 1
        ELSE IntAbs(xb - xs),
        E, lost)

\* k = 29 - BitLen(|big.m|): the mantissa of big is moved up to 29 digits and
\* small is aligned with it
Aligned(big, small, k) ==
  Summed(SignOf(big), SignOf(small), IntAbs(big.m) * 2^k,
         Shifted(IntAbs(small.m), small.e - (big.e - k)), big.e - k,
         Lost(IntAbs(small.m), small.e - (big.e - k)))

\* big + small for finite non-zero values with Top(small) <= Top(big)
AlignedSum(big, small) == Aligned(big, small, 29 - BitLen(IntAbs(big.m)))

\* left + right
Plus(a, b) ==
  IF IsNaN(a) \/ IsNaN(b) THEN NaN
  ELSE IF IsInf(a) THEN (IF IsInf(b) /\ a # b THEN NaN ELSE a)
  ELSE IF IsInf(b) THEN b
  ELSE IF a = Zero THEN b
  ELSE IF b = Zero THEN a
  ELSE AlignedSum(IF Top(a) >= Top(b) THEN a ELSE b,
                  IF Top(a) >= Top(b) THEN b ELSE a)

\* left / right
Over(a, b) ==
  IF IsNaN(a) \/ IsNaN(b) THEN NaN
  ELSE IF IsInf(a) THEN (IF IsInf(b) THEN NaN
                         ELSE Infinity(SignOf(a) * Sign(b.m)))
  ELSE IF IsInf(b) THEN Zero
  ELSE IF b = Zero THEN (IF a = Zero THEN NaN ELSE Infinity(SignOf(a)))
  ELSE Quotient(SignOf(a) * SignOf(b), IntAbs(a.m), IntAbs(b.m), a.e - b.e)

\* the mantissa of a non-zero value moved up to 24 digits
Lead(a) == IntAbs(a.m) * 2^(24 - BitLen(IntAbs(a.m)))

\* |left| < |right| for non-zero values that are not NaN: by the position of
\* the leading digit, then by the mantissas
LessMagnitude(a, b) ==
  IF Top(a) # Top(b) THEN Top(a) < Top(b) ELSE Lead(a) < Lead(b)

\* left < right; a comparison with NaN is false
Less(a, b) ==
  IF IsNaN(a) \/ IsNaN(b) THEN FALSE
  ELSE IF SignOf(a) # SignOf(b) THEN SignOf(a) < SignOf(b)
  ELSE IF SignOf(a) = 0 THEN FALSE
  ELSE LessMagnitude(IF SignOf(a) > 0 THEN a ELSE b,
                     IF SignOf(a) > 0 THEN b ELSE a)

\* left >= right; a comparison with NaN is false
GreaterEqual(a, b) == ~IsNaN(a) /\ ~IsNaN(b) /\ ~Less(a, b)

\* std::abs(value)
StdAbs(a) == [m |-> IntAbs(a.m), e |-> a.e]

\* one digit of a root from two digits of the radicand: the root q so far
\* and the remainder r, with the two digits appended, give the next pair
RootStep(q, r2) ==
  IF r2 >= 4 * q + 1 THEN [q |-> 2 * q + 1, r |-> r2 - (4 * q + 1)]
  ELSE [q |-> 2 * q, r |-> r2]

\* the root of mm < 2^26 from its pairs of digits i, i - 1, .., 0
RECURSIVE RootDigits(_, _, _)
RootDigits(x, mm, i) ==
  IF i < 0 THEN x
  ELSE RootDigits(RootStep(x.q, 4 * x.r + ((mm \div 2^(2 * i)) % 4)), mm, i - 1)

\* more digits of the root, from pairs of zeros, until 26 digits are there
\* or the remainder is zero
RECURSIVE RootLoop(_, _)
RootLoop(x, E) ==
  IF x.r = 0 \/ x.q >= 67108864 THEN [q |-> x.q, r |-> x.r, E |-> E]
  ELSE RootLoop(RootStep(x.q, 4 * x.r), E - 1)

\* the root of mm * 2^ee for an even ee
Root(mm, ee) ==
  RoundDigits(1, RootLoop(RootDigits([q |-> 0, r |-> 0], mm, 12), ee \div 2))

\* std::sqrt(value)
StdSqrt(a) ==
  IF IsNaN(a) \/ a.m < 0 THEN NaN
  ELSE IF a = Zero \/ IsInf(a) THEN a
  ELSE Root(IF a.e % 2 = 1 THEN 2 * a.m ELSE a.m,
            IF a.e % 2 = 1 THEN a.e - 1 ELSE a.e)

\* std::numeric_limits<T>::epsilon() for T = float, 2^-23
Epsilon == [m |-> 1, e |-> 0 - 23]

\* ---- SparseShape: tensors of norms ----

\* a Tensor<value_type>: the extents of its range and its data in row-major
\* order; an empty tensor has no range and no data
NoTensor == [range |-> <<>>, data |-> <<>>]

RECURSIVE Volume(_)
Volume(e) == IF e = <<>> THEN 1 ELSE Head(e) * Volume(Tail(e))

\* ordinal (from 0) of the index idx (from 0 in every dimension) in a range
\* with extents e
RECURSIVE Ord(_, _)
Ord(e, idx) ==
  IF e = <<>> THEN 0
  ELSE idx[1] * Volume(Tail(e)) + Ord(Tail(e), Tail(idx))

\* the index with ordinal o in a range with extents e
RECURSIVE Idx(_, _)
Idx(e, o) ==
  IF e = <<>> THEN <<>>
  ELSE <<o \div Volume(Tail(e))>> \o Idx(Tail(e), o % Volume(Tail(e)))

\* a SparseShape: tile_norms_ and the array of size vectors size_vectors_
NoShape == [tile_norms_ |-> NoTensor, size_vectors_ |-> <<>>]

\* no public constructor call built the shape as it is; otherwise the raw
\* norms that were normalized (summed over the processes by the collective
\* constructor), the tiled range and the threshold of the call
NoOrigin == [norms |-> <<>>, trange |-> <<>>, thr |-> Zero]

\* no collective constructor call is under way; otherwise buf is the
\* buffer being summed, trange the tiled range of the call and arrived the
\* number of processes whose norms are in buf
NoSum == [buf |-> NoTensor, trange |-> <<>>, arrived |-> 0]

\* no SparseShape call yet
NoCall == [op |-> "none", recv |-> NoShape, orig |-> NoOrigin,
           other |-> NoShape, factor |-> Zero, perm |-> <<>>, thr |-> Zero,
           out |-> NoShape]

\* ---- SparseShape: the operations of Tensor and Permutation it calls ----

\* the permutations of n dimensions: p[d] is the position dimension d moves to
Perms(n) == {p \in [1..n -> 1..n] : \A i, j \in 1..n : p[i] = p[j] => i = j}

\* the inverse permutation
PermInverse(p) == [k \in 1..Len(p) |-> CHOOSE d \in 1..Len(p) : p[d] = k]

\* perm * sequence: element d of v moves to position p[d]
PermApply(p, v) == [k \in 1..Len(v) |-> v[PermInverse(p)[k]]]

\* Tensor::permute(perm): result(perm * index) = this(index)
Permuted(t, p, re) ==
  [range |-> re,
   data |-> [o \in 1..Len(t.data) |->
               t.data[Ord(t.range,
                          [d \in 1..Len(p) |-> Idx(re, o - 1)[p[d]]]) + 1]]]

TensorPermute(t, p) == Permuted(t, p, PermApply(p, t.range))

\* Tensor::add(other), Tensor::mult(other), Tensor::mult(other, factor):
\* element by element
TensorAdd(t, u) ==
  [range |-> t.range,
   data |-> [o \in 1..Len(t.data) |-> Plus(t.data[o], u.data[o])]]

TensorMult(t, u) ==
  [range |-> t.range,
   data |-> [o \in 1..Len(t.data) |-> Times(t.data[o], u.data[o])]]

TensorMultScaled(t, u, factor) ==
  [range |-> t.range,
   data |-> [o \in 1..Len(t.data) |->
               Times(Times(t.data[o], u.data[o]), factor)]]

\* ---- SparseShape: private helpers ----

\* the three per-dimension transforms handed to recursive_outer_product; a
\* size vector holds value_type(extent)
VecOp(op, size_vector) ==
  [i \in 1..Len(size_vector) |->
     CASE op = "inv" -> Over(One, FromInt(size_vector[i]))
       [] op = "inv_sqrt" -> Over(One, StdSqrt(FromInt(size_vector[i])))
       [] op = "noop" -> FromInt(size_vector[i])]

\* ValArray::outer_fill(left, right, multiplies)
OuterFill(left, right) ==
  [k \in 1..(Len(left) * Len(right)) |->
     Times(left[((k - 1) \div Len(right)) + 1],
           right[((k - 1) % Len(right)) + 1])]

\* recursive_outer_product(size_vectors, dim, op) with dim = Len(size_vectors)
RECURSIVE recursive_outer_product(_, _)
recursive_outer_product(size_vectors, op) ==
  LET dim == Len(size_vectors) IN
  IF dim = 1 THEN VecOp(op, size_vectors[1])
  ELSE LET middle == (dim \div 2) + (dim % 2)
           left == recursive_outer_product(SubSeq(size_vectors, 1, middle), op)
           right == recursive_outer_product(
                      SubSeq(size_vectors, middle + 1, dim), op)
       IN OuterFill(left, right)

\* the left and the right vector of the rank > 1 branches
OuterLeft(size_vectors, op) ==
  LET dim == Len(size_vectors)
      middle == (dim \div 2) + (dim % 2)
  IN recursive_outer_product(SubSeq(size_vectors, 1, middle), op)

OuterRight(size_vectors, op) ==
  LET dim == Len(size_vectors)
      middle == (dim \div 2) + (dim % 2)
  IN recursive_outer_product(SubSeq(size_vectors, middle + 1, dim), op)

\* the factor x * y of the element operations that apply norm *= x * y
OuterFactors(size_vectors, op) ==
  OuterFill(OuterLeft(size_vectors, op), OuterRight(size_vectors, op))

\* bug: a comparison that also zeroes a norm equal to the threshold
HardZero_Inclusive(norm, threshold) ==
  IF Less(norm, threshold) \/ norm = threshold THEN Zero ELSE norm

\* if(norm < threshold) norm = 0
HardZero(norm, threshold) == IF Less(norm, threshold) THEN Zero ELSE norm

\* TA_ASSERT(norm >= value_type(0)) of both element operations of normalize()
NormAccepted(norm) == GreaterEqual(norm, Zero)

\* normalize(): every norm divided by the volume of its tile, then zeroed
\* when below the threshold; the assertion on a norm throws
\* the norms after normalize(): norm /= size in one dimension, norm *= x * y
\* with xy the outer product of the inverted size vectors in more
Normalized(tile_norms, size_vectors, threshold, xy) ==
  [range |-> tile_norms.range,
   data |-> [o \in 1..Len(tile_norms.data) |->
               IF Len(tile_norms.range) = 1
               THEN HardZero(Over(tile_norms.data[o],
                                  FromInt(size_vectors[1][o])),
                             threshold)
               ELSE HardZero(Times(tile_norms.data[o], xy[o]), threshold)]]

normalize(tile_norms, size_vectors) ==
  IF \E o \in 1..Len(tile_norms.data) : ~NormAccepted(tile_norms.data[o])
  THEN Thrown
  ELSE Normalized(tile_norms, size_vectors, threshold_,
                  IF Len(tile_norms.range) = 1 THEN <<>>
                  ELSE OuterFactors(size_vectors, "inv"))

\* initialize_size_vectors(trange): trange[d] holds the tile boundaries of
\* dimension d, the size vector holds the extents of its tiles
initialize_size_vectors(trange) ==
  [d \in 1..Len(trange) |->
     [i \in 1..(Len(trange[d]) - 1) |-> trange[d][i + 1] - trange[d][i]]]

\* trange.tiles(): the number of tiles in every dimension
TilesRange(trange) == [d \in 1..Len(trange) |-> Len(trange[d]) - 1]

\* bug: the size vector of dimension i is read from position perm[i]
perm_size_vectors_Inverse(size_vectors, perm) ==
  [k \in 1..Len(size_vectors) |-> size_vectors[perm[k]]]

\* perm_size_vectors(perm): result[perm[i]] = size_vectors_[i]
perm_size_vectors(size_vectors, perm) ==
  [k \in 1..Len(size_vectors) |->
     size_vectors[CHOOSE i \in 1..Len(perm) : perm[i] = k]]

\* ---- SparseShape: public operations ----

\* a shape of the normalized norms, unless normalize() threw
Sized(normalized, size_vectors) ==
  IF normalized = Thrown THEN Thrown
  ELSE [tile_norms_ |-> normalized, size_vectors_ |-> size_vectors]

\* SparseShape(tile_norms, trange): a copy of the norms, normalized; an
\* exception of normalize() leaves the constructor
SparseShape(tile_norms, trange) ==
  Sized(normalize(tile_norms, initialize_size_vectors(trange)),
        initialize_size_vectors(trange))

\* empty()
empty(s) == s.tile_norms_.data = <<>>

\* is_zero(i), i the ordinal (from 1) of the tile
is_zero(s, i) == Less(s.tile_norms_.data[i], threshold_)

\* perm(perm)
perm(s, p) ==
  [tile_norms_ |-> TensorPermute(s.tile_norms_, p),
   size_vectors_ |-> perm_size_vectors(s.size_vectors_, p)]

\* the element operation of scale(factor): value *= abs_factor, zeroed when
\* below the threshold
ScaleOp(value, factor) ==
  HardZero(Times(value, StdAbs(factor)), threshold_)

\* tile_norms_.unary(op) of scale: op applied to every element
UnaryScale(t, factor) ==
  [range |-> t.range,
   data |-> [o \in 1..Len(t.data) |-> ScaleOp(t.data[o], factor)]]

\* scale(factor)
scale(s, factor) ==
  [tile_norms_ |-> UnaryScale(s.tile_norms_, factor),
   size_vectors_ |-> s.size_vectors_]

\* scale(factor, perm)
scale_perm(s, factor, p) ==
  [tile_norms_ |-> TensorPermute(UnaryScale(s.tile_norms_, factor), p),
   size_vectors_ |-> perm_size_vectors(s.size_vectors_, p)]

\* add(other)
add(s, other) ==
  [tile_norms_ |-> TensorAdd(s.tile_norms_, other.tile_norms_),
   size_vectors_ |-> s.size_vectors_]

\* add(other, perm)
add_perm(s, other, p) ==
  [tile_norms_ |-> TensorPermute(TensorAdd(s.tile_norms_, other.tile_norms_), p),
   size_vectors_ |-> perm_size_vectors(s.size_vectors_, p)]

\* the element operation of add(other, factor): (left + right) * abs_factor,
\* zeroed when below the threshold
AddOp(left, right, factor) ==
  HardZero(Times(Plus(left, right), StdAbs(factor)), threshold_)

\* tile_norms_.binary(other.tile_norms_, op) of add: op applied to the pairs
\* of elements
BinaryAdd(t, u, factor) ==
  [range |-> t.range,
   data |-> [o \in 1..Len(t.data) |-> AddOp(t.data[o], u.data[o], factor)]]

\* add(other, factor)
add_factor(s, other, factor) ==
  [tile_norms_ |-> BinaryAdd(s.tile_norms_, other.tile_norms_, factor),
   size_vectors_ |-> s.size_vectors_]

\* add(other, factor, perm)
add_factor_perm(s, other, factor, p) ==
  [tile_norms_ |-> TensorPermute(
                     BinaryAdd(s.tile_norms_, other.tile_norms_, factor), p),
   size_vectors_ |-> perm_size_vectors(s.size_vectors_, p)]

\* bug: add(value) without std::abs
AddConstValue_NoAbs(value) == value

\* value = std::abs(value) of add(value)
AddConstValue(value) == StdAbs(value)

\* add(value): |value| / sqrt(volume of the tile) added to every norm, which
\* is zeroed when below the threshold
ValueAdded(s, v, threshold, left, right) ==
  [tile_norms_ |->
     [range |-> s.tile_norms_.range,
      data |-> [o \in 1..Len(s.tile_norms_.data) |->
                  IF Len(s.tile_norms_.range) = 1
                  THEN HardZero(
                         Plus(s.tile_norms_.data[o],
                              Over(v, StdSqrt(FromInt(s.size_vectors_[1][o])))),
                         threshold)
                  ELSE HardZero(
                         Plus(s.tile_norms_.data[o],
                              Times(Times(v, left[((o - 1) \div Len(right)) + 1]),
                                    right[((o - 1) % Len(right)) + 1])),
                         threshold)]],
   size_vectors_ |-> s.size_vectors_]

add_value(s, value) ==
  ValueAdded(s, AddConstValue(value), threshold_,
             IF Len(s.tile_norms_.range) = 1 THEN <<>>
             ELSE OuterLeft(s.size_vectors_, "inv_sqrt"),
             IF Len(s.tile_norms_.range) = 1 THEN <<>>
             ELSE OuterRight(s.size_vectors_, "inv_sqrt"))

\* add(value, perm)
add_value_perm(s, value, p) == perm(add_value(s, value), p)

\* subt(...): every overload returns the add(...) of the same arguments
subt(s, other) == add(s, other)

subt_perm(s, other, p) == add_perm(s, other, p)

subt_factor(s, other, factor) == add_factor(s, other, factor)

subt_factor_perm(s, other, factor, p) == add_factor_perm(s, other, factor, p)

subt_value(s, value) == add_value(s, value)

subt_value_perm(s, value, p) == add_value_perm(s, value, p)

\* scale_by_size(tile_norms, size_vectors): every norm multiplied by the
\* volume of its tile; only the rank > 1 branch compares with the threshold
ScaledBySize(tile_norms, size_vectors, threshold, xy) ==
  [range |-> tile_norms.range,
   data |-> [o \in 1..Len(tile_norms.data) |->
               IF Len(tile_norms.range) = 1
               THEN Times(tile_norms.data[o], FromInt(size_vectors[1][o]))
               ELSE HardZero(Times(tile_norms.data[o], xy[o]), threshold)]]

scale_by_size(tile_norms, size_vectors) ==
  ScaledBySize(tile_norms, size_vectors, threshold_,
               IF Len(tile_norms.range) = 1 THEN <<>>
               ELSE OuterFactors(size_vectors, "noop"))

\* mult(other)
mult(s, other) ==
  [tile_norms_ |-> scale_by_size(TensorMult(s.tile_norms_, other.tile_norms_),
                                 s.size_vectors_),
   size_vectors_ |-> s.size_vectors_]

\* mult(other, perm)
mult_perm(s, other, p) ==
  LET result_size_vector == perm_size_vectors(s.size_vectors_, p) IN
  [tile_norms_ |-> scale_by_size(
                     TensorPermute(TensorMult(s.tile_norms_,
                                              other.tile_norms_), p),
                     result_size_vector),
   size_vectors_ |-> result_size_vector]

\* mult(other, factor)
mult_factor(s, other, factor) ==
  [tile_norms_ |-> scale_by_size(
                     TensorMultScaled(s.tile_norms_, other.tile_norms_,
                                      StdAbs(factor)),
                     s.size_vectors_),
   size_vectors_ |-> s.size_vectors_]

\* mult(other, factor, perm)
mult_factor_perm(s, other, factor, p) ==
  LET result_size_vector == perm_size_vectors(s.size_vectors_, p) IN
  [tile_norms_ |-> scale_by_size(
                     TensorPermute(
                       TensorMultScaled(s.tile_norms_, other.tile_norms_,
                                        StdAbs(factor)), p),
                     result_size_vector),
   size_vectors_ |-> result_size_vector]

\* math::GemmHelper for a contraction without transposition: the dimension
\* ranges (from 0, end exclusive) of the outer and the contracted dimensions
GemmHelper(left_rank, right_rank, result_rank) ==
  LET contract == (left_rank + right_rank - result_rank) \div 2 IN
  [result_rank |-> result_rank,
   left_outer_begin |-> 0, left_outer_end |-> left_rank - contract,
   left_inner_begin |-> left_rank - contract, left_inner_end |-> left_rank,
   right_inner_begin |-> 0, right_inner_end |-> contract,
   right_outer_begin |-> contract, right_outer_end |-> right_rank]

\* sum over k = 1..n of left(m, k) * right(k, col) for row-major matrices
\* with K and N columns
RECURSIVE DotProduct(_, _, _, _, _, _, _)
DotProduct(left, right, m, col, n, K, N) ==
  IF n = 0 THEN Zero
  ELSE Plus(DotProduct(left, right, m, col, n - 1, K, N),
            Times(left[(m - 1) * K + n], right[(n - 1) * N + col]))

\* Tensor::gemm(right, factor, gemm_helper): factor * left * right as an
\* M x N matrix
TensorGemm(left, right, factor, M, N, K) ==
  [o \in 1..(M * N) |->
     Times(factor, DotProduct(left, right, ((o - 1) \div N) + 1,
                              ((o - 1) % N) + 1, K, K, N))]

\* bug: the outer-product branch without the factor
GemmOuterOp_NoFactor(left, right, factor, threshold) ==
  HardZero(Times(left, right), threshold)

\* the element operation of the outer-product branch of gemm
GemmOuterOp(left, right, factor, threshold) ==
  HardZero(Times(Times(left, right), factor), threshold)

\* the contracting branch: the temporaries left and right are the norms
\* times the sizes of the contracted tiles, then
\* left.gemm(right, factor, gemm_helper)
GemmContract(s, other, f, M, N, K, k_sizes) ==
  TensorGemm([o \in 1..(M * K) |->
                Times(s.tile_norms_.data[o], k_sizes[((o - 1) % K) + 1])],
             [o \in 1..(K * N) |->
                Times(other.tile_norms_.data[o],
                      k_sizes[((o - 1) \div N) + 1])],
             f, M, N, K)

\* the outer-product branch: math::outer_fill over the norms themselves
GemmOuterFill(s, other, f, threshold, M, N) ==
  [o \in 1..(M * N) |->
     GemmOuterOp(s.tile_norms_.data[((o - 1) \div N) + 1],
                 other.tile_norms_.data[((o - 1) % N) + 1], f, threshold)]

\* result_norms.inplace_unary at the end of gemm
GemmHardZero(t) ==
  [range |-> t.range,
   data |-> [o \in 1..Len(t.data) |-> HardZero(t.data[o], threshold_)]]

\* gemm with the matrix sizes M, N and K that compute_matrix_sizes returns
GemmSized(s, other, f, threshold, gemm_helper, M, N, K) ==
  [tile_norms_ |->
     GemmHardZero(
       [range |->
          SubSeq(s.tile_norms_.range, gemm_helper.left_outer_begin + 1,
                 gemm_helper.left_outer_end)
          \o SubSeq(other.tile_norms_.range,
                    gemm_helper.right_outer_begin + 1,
                    gemm_helper.right_outer_end),
        data |->
          IF gemm_helper.left_inner_end - gemm_helper.left_inner_begin > 0
          THEN GemmContract(
                 s, other, f, M, N, K,
                 recursive_outer_product(
                   SubSeq(s.size_vectors_, gemm_helper.left_inner_begin + 1,
                          gemm_helper.left_inner_end), "noop"))
          ELSE GemmOuterFill(s, other, f, threshold, M, N)]),
   size_vectors_ |->
     SubSeq(s.size_vectors_, gemm_helper.left_outer_begin + 1,
            gemm_helper.left_outer_end)
     \o SubSeq(other.size_vectors_, gemm_helper.right_outer_begin + 1,
               gemm_helper.right_outer_end)]

\* gemm(other, factor, gemm_helper)
gemm(s, other, factor, gemm_helper) ==
  GemmSized(s, other, StdAbs(factor), threshold_, gemm_helper,
            Volume(SubSeq(s.tile_norms_.range,
                          gemm_helper.left_outer_begin + 1,
                          gemm_helper.left_outer_end)),
            Volume(SubSeq(other.tile_norms_.range,
                          gemm_helper.right_outer_begin + 1,
                          gemm_helper.right_outer_end)),
            Volume(SubSeq(s.tile_norms_.range,
                          gemm_helper.left_inner_begin + 1,
                          gemm_helper.left_inner_end)))

\* gemm(other, factor, gemm_helper, perm)
gemm_perm(s, other, factor, gemm_helper, p) ==
  perm(gemm(s, other, factor, gemm_helper), p)

\* ---- SparseShape: buffers and the objects that share them ----

\* a SparseShape object: the buffer tile_norms_ refers to and the array
\* size_vectors_ points to (0: an empty tensor, a null pointer)
NullShape == [norms |-> 0, sizes |-> 0]

\* a client that holds no tensor and three default-constructed shapes: a and
\* b, the ones it calls operations on, and r, the one the last call returned
NoClient == [input |-> 0, trange |-> <<>>, a |-> NullShape, b |-> NullShape,
             r |-> NullShape, ret |-> <<>>]

\* the shape object h as a value: the contents of its buffers
Deref(h) ==
  IF h.norms = 0 THEN NoShape
  ELSE [tile_norms_ |-> heap[h.norms], size_vectors_ |-> heap[h.sizes]]

\* the n-th buffer allocated by the running call
Fresh(n) == Len(heap) + n

\* bug: the public constructor keeps the caller's tensor (a shallow copy)
CtorNormsBuffer_Shallow(input, fresh) == input

\* tile_norms_(tile_norms.clone()): the constructed shape refers to a new
\* buffer
CtorNormsBuffer(input, fresh) == fresh

\* the buffers a call allocates, the write it makes in place afterwards, and
\* the object it returns
Effect(cells, inplace, out) == [cells |-> cells, inplace |-> inplace, out |-> out]

\* SparseShape(tile_norms, trange): clone, initialize_size_vectors, and
\* normalize() writing through tile_norms_.data()
CtorEffect(input, trange) ==
  LET sv == initialize_size_vectors(trange)
      nb == CtorNormsBuffer(input, Fresh(1))
      h1 == heap \o <<heap[input], sv>>
  IN Effect(<<heap[input], sv>>,
            <<[to |-> nb, val |-> normalize(h1[nb], sv)]>>,
            [norms |-> nb, sizes |-> Fresh(2)])

\* SparseShape(world, tile_norms, trange): clone, initialize_size_vectors,
\* gop.sum leaving the sum over the processes in tile_norms_, and normalize()
\* writing through tile_norms_.data()
CollectiveEffect(input, trange, summed) ==
  Effect(<<heap[input], initialize_size_vectors(trange)>>,
         <<[to |-> CtorNormsBuffer(input, Fresh(1)),
            val |-> normalize(summed, initialize_size_vectors(trange))]>>,
         [norms |-> CtorNormsBuffer(input, Fresh(1)), sizes |-> Fresh(2)])

\* SparseShape_(result_tile_norms, size_vectors_): a call that returns a new
\* norm tensor with the size-vector array of the receiver s
SharedSizesEffect(s, norms) ==
  Effect(<<norms>>, <<>>, [norms |-> Fresh(1), sizes |-> s.sizes])

\* SparseShape_(result_tile_norms, perm_size_vectors(perm)) and gemm: a call
\* that returns a new norm tensor and a new size-vector array
NewSizesEffect(v) ==
  Effect(<<v.tile_norms_, v.size_vectors_>>, <<>>,
         [norms |-> Fresh(1), sizes |-> Fresh(2)])

\* mult(other) and mult(other, factor): the product tensor
\* result_tile_norms, then scale_by_size on it
MultEffect(s, result_tile_norms) ==
  Effect(<<result_tile_norms>>,
         <<[to |-> Fresh(1),
            val |-> scale_by_size(result_tile_norms, heap[s.sizes])]>>,
         [norms |-> Fresh(1), sizes |-> s.sizes])

\* mult(other, perm) and mult(other, factor, perm): the permuted product
\* tensor, a new size-vector array, then scale_by_size on the product
MultPermEffect(s, product, p) ==
  LET sv == perm_size_vectors(heap[s.sizes], p)
  IN Effect(<<product, sv>>,
            <<[to |-> Fresh(1), val |-> scale_by_size(product, sv)]>>,
            [norms |-> Fresh(1), sizes |-> Fresh(2)])

\* gemm(other, factor, gemm_helper): a new size-vector array, the result
\* tensor, then inplace_unary on the result
GemmEffect(s, other, factor, gemm_helper) ==
  LET v == gemm(Deref(s), Deref(other), factor, gemm_helper) IN
  Effect(<<v.tile_norms_, v.size_vectors_>>,
         <<[to |-> Fresh(1), val |-> GemmHardZero(v.tile_norms_)]>>,
         [norms |-> Fresh(1), sizes |-> Fresh(2)])

\* the buffers after the writes ws
RECURSIVE HeapWrite(_, _)
HeapWrite(h, ws) ==
  IF ws = <<>> THEN h
  ELSE HeapWrite([h EXCEPT ![Head(ws).to] = Head(ws).val], Tail(ws))

\* validate(range)
validate(s, range) ==
  IF s.tile_norms_.data = <<>> THEN FALSE ELSE range = s.tile_norms_.range

\* sparsity(): the number of norms below the threshold
sparsity(s) ==
  Cardinality({o \in 1..Len(s.tile_norms_.data) :
                 Less(s.tile_norms_.data[o], threshold_)})

\* ---- objects ----

NoArg == [val |-> 0, cnt |-> 0, pend |-> {}, cb |-> FALSE]

\* a ReduceObject that is not an argument of this task: the one parked in
\* another ReduceTaskImpl
ForeignObject == MaxArgs + 1

\* object->arg() of a ReduceObject
ObjectArg(j) == IF j \in Args THEN arg[j].val ELSE ArgValue(j)

\* the callback of a ReduceObject
ObjectCallback(j) == j \in Args /\ arg[j].cb

\* one more op invocation or destroy counted for the argument of ReduceObject j
Counted(f, j) == IF j \in Args THEN [f EXCEPT ![j] = @ + 1] ELSE f

\* the events e recorded for the argument of ReduceObject j
Logged(ev, j, e) == IF j \in Args THEN [ev EXCEPT ![j] = @ \o e] ELSE ev

NoTask == [kind |-> "none", pc |-> "none", result |-> <<>>, objs |-> <<>>,
           cur |-> 0, rr |-> <<>>, ndec |-> 0, attr |-> "none"]

TaskHolder(k) == MaxArgs + k

\* the state after ReduceTask(world, op, callback), for an op among ops
Constructed(ops) ==
  /\ arity \in {1, 2}
  /\ has_callback \in BOOLEAN
  /\ op_ \in ops
  /\ pimpl_ = TRUE
  /\ count_ = 0
  /\ outstanding = 1
  /\ implq = "none"
  /\ ready_result_ = <<OpIdentity>>
  /\ ready_object_ = 0
  /\ lock_ = 0
  /\ result_ = <<>>
  /\ arg = [i \in Args |-> NoArg]
  /\ rpc = [i \in Args |-> "none"]
  /\ task = [i \in Args |-> NoTask]
  /\ mainpc = "idle"
  /\ err = {}
  /\ consumed = [i \in Args |-> 0]
  /\ destroyed = [i \in Args |-> 0]
  /\ events = [i \in Args |-> <<>>]
  /\ nFused = 0
  /\ nMerge = 0
  /\ nSet = 0
  /\ nNotify = 0
  /\ allSync = TRUE
  /\ threshold_ = Epsilon
  /\ shape = NoShape
  /\ origin = NoOrigin
  /\ last = NoCall
  /\ nops = 0
  /\ gop = NoSum
  /\ heap = <<>>
  /\ client = NoClient

Init == Constructed(ClientOps)

\* the TA_ASSERT(pimpl_) of an argument or post-processing call of op_ passes
OpReturns == op_.pimpl_

\* ---- ReduceTaskImpl::run ----

\* the body of run(): MADNESS_ASSERT(ready_result_); result_.set(op_(...));
\* if(callback_) callback_->notify();
Run ==
  IF ready_result_ = <<>>
  THEN /\ err' = err \cup {"run"}
       /\ UNCHANGED <<result_, nSet, nNotify>>
  ELSE /\ result_' = <<OpPost(op_, ready_result_[1])>>
       /\ nSet' = nSet + 1
       /\ nNotify' = IF has_callback THEN nNotify + 1 ELSE nNotify
       /\ err' = err

\* the task queue runs the submitted ReduceTaskImpl once its dependency
\* counter is zero: the assertion on ready_result_ comes first and ends the
\* run when it fails, op_ is invoked only after it has passed
TaskRun ==
  /\ implq = "queued"
  /\ outstanding = 0
  /\ (ready_result_ # <<>>) => OpReturns
  /\ Run
  /\ implq' = "done"
  /\ UNCHANGED <<shapeVars, arity, has_callback, op_, pimpl_, count_, outstanding,
                 ready_result_, ready_object_, lock_, arg, rpc, task, mainpc,
                 consumed, destroyed, events, nFused, nMerge, allSync>>

\* ---- ReduceTask::add ----

\* bug: register_callback on a future that is already set does not notify
CountAfterRegister_NoNotify(S) == arity

\* value of count_ after register_callbacks when the futures in S are unset:
\* count_ = arity, and register_callback on a set future notifies at once
CountAfterRegister(S) == arity - Cardinality((1..arity) \ S)

\* bug: add() without its assertion
AddAllowed_Always == TRUE

\* MADNESS_ASSERT(pimpl_) at the start of add()
AddAllowed == pimpl_

\* add(arg, callback): S is the set of futures of the argument that are not
\* yet set, cb tells whether callback is not NULL
Add(S, cb) ==
  /\ mainpc = "idle"
  /\ AddAllowed
  /\ count_ < MaxArgs
  /\ LET i == count_ + 1 IN
       /\ outstanding' = outstanding + 1
       /\ IF S = {}
          THEN \* probe() holds: parent_->ready(this) on the caller's thread
               /\ arg' = [arg EXCEPT ![i] = [val |-> ArgValue(i), cnt |-> 0, pend |-> {},
                                            cb |-> cb]]
               /\ rpc' = [rpc EXCEPT ![i] = "lock"]
               /\ mainpc' = "add"
               /\ UNCHANGED <<count_, allSync>>
          ELSE /\ arg' = [arg EXCEPT ![i] = [val |-> ArgValue(i),
                                            cnt |-> CountAfterRegister(S),
                                            pend |-> S, cb |-> cb]]
               /\ count_' = count_ + 1
               /\ allSync' = FALSE
               /\ UNCHANGED <<rpc, mainpc>>
  /\ UNCHANGED <<shapeVars, arity, has_callback, op_, pimpl_, implq, ready_result_,
                 ready_object_, lock_, result_, task, err, consumed,
                 destroyed, events, nFused, nMerge, nSet, nNotify>>

\* add() after submit(): MADNESS_ASSERT(pimpl_) fails before anything is done
AddAfterSubmit ==
  /\ mainpc = "idle"
  /\ ~AddAllowed
  /\ err' = err \cup {"add"}
  /\ UNCHANGED <<shapeVars, arity, has_callback, op_, pimpl_, count_, outstanding, implq,
                 ready_result_, ready_object_, lock_, result_, arg, rpc, task,
                 mainpc, consumed, destroyed, events, nFused, nMerge, nSet, nNotify,
                 allSync>>

\* ---- ReduceTask::submit ----

\* MADNESS_ASSERT(pimpl_) at the start of submit()
SubmitAllowed == pimpl_

\* bug: submit() without the special case of an empty reduction
SubmitInline_Never == FALSE

\* if(count_ == 0ul): the terminal step is run by the caller
SubmitInline == count_ = 0

\* submit(): dec() takes the count the constructor of the task starts with
\* from the dependency counter; after a submit() that an exception has left,
\* pimpl_ is still there and dec() takes the counter below what is owed
Submit ==
  /\ mainpc = "idle"
  /\ SubmitAllowed
  /\ IF SubmitInline
     THEN \* dec(); run(); delete pimpl_
          /\ OpReturns
          /\ outstanding' = outstanding - 1
          /\ Run
          /\ implq' = implq
     ELSE \* taskq.add(pimpl_); dec()
          /\ implq' = "queued"
          /\ outstanding' = outstanding - 1
          /\ UNCHANGED <<result_, nSet, nNotify, err>>
  /\ pimpl_' = FALSE
  /\ UNCHANGED <<shapeVars, arity, has_callback, op_, count_, ready_result_, ready_object_,
                 lock_, arg, rpc, task, mainpc, consumed, destroyed, events, nFused,
                 nMerge, allSync>>

\* submit() after submit(): MADNESS_ASSERT(pimpl_) fails
SubmitAfterSubmit ==
  /\ mainpc = "idle"
  /\ ~SubmitAllowed
  /\ err' = err \cup {"submit"}
  /\ UNCHANGED <<shapeVars, arity, has_callback, op_, pimpl_, count_, outstanding, implq,
                 ready_result_, ready_object_, lock_, result_, arg, rpc, task,
                 mainpc, consumed, destroyed, events, nFused, nMerge, nSet, nNotify,
                 allSync>>

\* ---- ReduceObject::notify ----

\* future f of argument i is set and calls the registered callback:
\* if((--count_) == 0) parent_->ready(this)
FutureSet(i, f) ==
  /\ f \in arg[i].pend
  /\ arg' = [arg EXCEPT ![i].pend = @ \ {f}, ![i].cnt = @ - 1]
  /\ rpc' = IF arg[i].cnt - 1 = 0 THEN [rpc EXCEPT ![i] = "lock"] ELSE rpc
  /\ UNCHANGED <<shapeVars, arity, has_callback, op_, pimpl_, count_, outstanding, implq,
                 ready_result_, ready_object_, lock_, result_, task, mainpc,
                 err, consumed, destroyed, events, nFused, nMerge, nSet, nNotify,
                 allSync>>

\* ---- ReduceTaskImpl::ready ----

\* lock_.lock() at the start of ready(object)
ReadyLock(i) ==
  /\ rpc[i] = "lock"
  /\ lock_ = 0
  /\ lock_' = i
  /\ rpc' = [rpc EXCEPT ![i] = "cs"]
  /\ UNCHANGED <<shapeVars, arity, has_callback, op_, pimpl_, count_, outstanding, implq,
                 ready_result_, ready_object_, result_, arg, task, mainpc, err,
                 consumed, destroyed, events, nFused, nMerge, nSet, nNotify, allSync>>

\* bug: ready() parks the object without looking at ready_result_
ReadyBranch_ParkFirst(rr, ro) ==
  IF ro # 0 THEN "object" ELSE "park"

\* which branch of ready() is taken for the slots (rr, ro)
ReadyBranch(rr, ro) ==
  IF rr # <<>> THEN "result"
  ELSE IF ro # 0 THEN "object"
  ELSE "park"

\* bug: reduce_result_object decrements twice, as reduce_object_object does
ResultObjectTask_DecTwice(res, i) ==
  [kind |-> "result_object", pc |-> "op", result |-> res, objs |-> <<i>>,
   cur |-> 0, rr |-> <<>>, ndec |-> 2,
   attr |-> "hipri"]

\* the task spawned by taskq.add(this, &reduce_result_object, ready_result, object)
ResultObjectTask(res, i) ==
  [kind |-> "result_object", pc |-> "op", result |-> res, objs |-> <<i>>,
   cur |-> 0, rr |-> <<>>, ndec |-> 1,
   attr |-> "hipri"]

\* bug: reduce_object_object is given the new object twice
ObjectObjectTask_SameObject(i, j) ==
  [kind |-> "object_object", pc |-> "op", result |-> <<>>, objs |-> <<i, i>>,
   cur |-> 0, rr |-> <<>>, ndec |-> 2,
   attr |-> "hipri"]

\* the task spawned by taskq.add(this, &reduce_object_object, object, ready_object)
ObjectObjectTask(i, j) ==
  [kind |-> "object_object", pc |-> "op", result |-> <<>>, objs |-> <<i, j>>,
   cur |-> 0, rr |-> <<>>, ndec |-> 2,
   attr |-> "hipri"]

\* bug: ready() does not reset ready_result_ when it claims the result
ReadyResultSlot_Kept(b, rr) == rr

\* ready_result_ after the critical section of ready(): reset when claimed
ReadyResultSlot(b, rr) == IF b = "result" THEN <<>> ELSE rr

\* bug: ready() does not reset ready_object_ when it claims the parked object
ReadyObjectSlot_NotCleared(b, ro, i) ==
  IF b = "park" THEN i ELSE ro

\* ready_object_ after the critical section of ready(object i): NULL when
\* claimed, object when parked
ReadyObjectSlot(b, ro, i) ==
  IF b = "object" THEN 0
  ELSE IF b = "park" THEN i
  ELSE ro

\* bug: ready() calls taskq.add before lock_.unlock() when it spawns a task
ReadyUnlock_AfterAdd(b, h) == IF b = "park" THEN 0 ELSE h

\* lock_.unlock(), the statement that follows the slot update on each of the
\* three branches of ready(): the holder of lock_ after it
ReadyUnlock(b, h) == 0

\* the critical section of ready(object i), where the reads of the two slots
\* returned rr and ro, and the unlock that ends it; on the park branch ready()
\* then returns, and add(), when it is the caller, ++count_
ReadyTake(i, rr, ro) ==
  /\ LET b == ReadyBranch(rr, ro) IN
       /\ ready_result_' = ReadyResultSlot(b, rr)
       /\ ready_object_' = ReadyObjectSlot(b, ro, i)
       /\ task' = IF b = "result"
                  THEN [task EXCEPT ![i] = ResultObjectTask(rr, i)]
                  ELSE IF b = "object"
                  THEN [task EXCEPT ![i] = ObjectObjectTask(i, ro)]
                  ELSE task
       /\ lock_' = ReadyUnlock(b, i)
       /\ rpc' = [rpc EXCEPT ![i] = IF b = "park" THEN "done" ELSE "add"]
       /\ IF b = "park" /\ mainpc = "add" /\ i = count_ + 1
          THEN count_' = count_ + 1 /\ mainpc' = "idle"
          ELSE UNCHANGED <<count_, mainpc>>
  /\ UNCHANGED <<shapeVars, arity, has_callback, op_, pimpl_, outstanding, implq, result_,
                 arg, consumed, destroyed, events, nFused, nMerge, nSet, nNotify,
                 allSync>>

ReadyCS(i) ==
  /\ rpc[i] = "cs"
  /\ lock_ = i
  /\ ReadyTake(i, ready_result_, ready_object_)
  /\ err' = err

\* taskq.add(this, &reduce_result_object, ...) or taskq.add(this,
\* &reduce_object_object, ...) after the unlock: the task made of the locals
\* of ready() enters the task queue and ready() returns
ReadyAdd(i) ==
  /\ rpc[i] = "add"
  /\ rpc' = [rpc EXCEPT ![i] = "done"]
  /\ IF mainpc = "add" /\ i = count_ + 1
     THEN count_' = count_ + 1 /\ mainpc' = "idle"
     ELSE UNCHANGED <<count_, mainpc>>
  /\ UNCHANGED <<shapeVars, arity, has_callback, op_, pimpl_, outstanding, implq,
                 ready_result_, ready_object_, lock_, result_, arg, task, err,
                 consumed, destroyed, events, nFused, nMerge, nSet, nNotify, allSync>>

\* the reducer task of ready() call k is in the task queue or running
Queued(k) == task[k].kind # "none" /\ rpc[k] = "done"

\* the run of the reducer task of ready() call k is over: it returned, an
\* exception left its body, or its thread stopped
Ended(k) == task[k].pc \in {"done", "thrown", "crashed"}

\* ---- ReduceObject::destroy ----

\* bug: destroy deletes the object without looking at callback_
DestroyEvents_NoCallback(cb) == <<"delete">>

\* the calls of ReduceObject::destroy(object), in order:
\* if(object->callback_) object->callback_->notify(); delete object;
DestroyEvents(cb) == IF cb THEN <<"notify", "delete">> ELSE <<"delete">>

\* ---- reduce_result_object / reduce_object_object ----

\* bug: dec() before reduce(result), the race the source warns about
TaskFlow_DecFirst(ev) ==
  CASE ev = "destroyed" -> "dec"
    [] ev = "decremented" -> "lock"
    [] ev = "parked" -> "done"

\* the order of the statements of a reducer task body after its first op
\* invocation: destroy the argument(s), then reduce(result), then dec()
TaskFlow(ev) ==
  CASE ev = "destroyed" -> "lock"
    [] ev = "parked" -> "dec"
    [] ev = "decremented" -> "done"

\* the first op invocation of a reducer task: op_(*result, object->arg()), or
\* result = new result_type(op_()); op_(*result, object1->arg(), object2->arg())
TaskOp(k) ==
  /\ Queued(k)
  /\ task[k].pc = "op"
  /\ OpReturns
  /\ LET t == task[k] IN
       IF t.kind = "result_object"
       THEN /\ task' = [task EXCEPT
                          ![k].result = <<OpArg(op_, t.result[1], ObjectArg(t.objs[1]))>>,
                          ![k].pc = "destroy"]
            /\ consumed' = Counted(consumed, t.objs[1])
            /\ events' = Logged(events, t.objs[1], <<"op">>)
            /\ nFused' = nFused
       ELSE /\ task' = [task EXCEPT
                          ![k].result = <<OpArg2(op_, OpIdentity, ObjectArg(t.objs[1]),
                                                 ObjectArg(t.objs[2]))>>,
                          ![k].pc = "destroy"]
            /\ consumed' = Counted(Counted(consumed, t.objs[1]), t.objs[2])
            /\ events' = Logged(Logged(events, t.objs[1], <<"op">>),
                                t.objs[2], <<"op">>)
            /\ nFused' = nFused + 1
  /\ UNCHANGED <<shapeVars, arity, has_callback, op_, pimpl_, count_, outstanding, implq,
                 ready_result_, ready_object_, lock_, result_, arg, rpc,
                 mainpc, err, destroyed, nMerge, nSet, nNotify, allSync>>

\* ReduceObject::destroy of the next argument the task was spawned with;
\* after the last one the task calls reduce(result)
TaskDestroy(k) ==
  /\ task[k].pc = "destroy"
  /\ LET t == task[k] IN
       /\ destroyed' = Counted(destroyed, Head(t.objs))
       /\ events' = Logged(events, Head(t.objs),
                           DestroyEvents(ObjectCallback(Head(t.objs))))
       /\ task' = [task EXCEPT ![k].objs = Tail(t.objs),
                               ![k].pc = IF Tail(t.objs) = <<>>
                                         THEN TaskFlow("destroyed")
                                         ELSE "destroy"]
  /\ UNCHANGED <<shapeVars, arity, has_callback, op_, pimpl_, count_, outstanding, implq,
                 ready_result_, ready_object_, lock_, result_, arg, rpc,
                 mainpc, err, consumed, nFused, nMerge, nSet, nNotify,
                 allSync>>

\* ---- ReduceTaskImpl::reduce (the drain loop) ----

\* while(result) { lock_.lock(); ...
DrainLock(k) ==
  /\ task[k].pc = "lock"
  /\ lock_ = 0
  /\ lock_' = TaskHolder(k)
  /\ task' = [task EXCEPT ![k].pc = "cs"]
  /\ UNCHANGED <<shapeVars, arity, has_callback, op_, pimpl_, count_, outstanding, implq,
                 ready_result_, ready_object_, result_, arg, rpc, mainpc, err,
                 consumed, destroyed, events, nFused, nMerge, nSet, nNotify, allSync>>

\* bug: the loop does not look at ready_object_
DrainBranch_NoObject(rr, ro) ==
  IF rr # <<>> THEN "result" ELSE "park"

\* which branch of the loop body is taken for the slots (rr, ro)
DrainBranch(rr, ro) ==
  IF ro # 0 THEN "object"
  ELSE IF rr # <<>> THEN "result"
  ELSE "park"

\* bug: the loop does not reset ready_object_ when it takes the object
DrainObjectSlot_Kept(b, ro) == ro

\* ready_object_ after the critical section of a loop iteration
DrainObjectSlot(b, ro) == IF b = "object" THEN 0 ELSE ro

\* bug: the loop drops its result instead of parking it
DrainResultSlot_Dropped(b, rr, res) ==
  IF b = "result" THEN <<>> ELSE rr

\* ready_result_ after the critical section of a loop iteration of a task
\* holding res: reset when claimed, res when parked
DrainResultSlot(b, rr, res) ==
  IF b = "result" THEN <<>>
  ELSE IF b = "park" THEN res
  ELSE rr

\* lock_.unlock(), the statement that follows the slot update on each of the
\* three branches of the loop body: the holder of lock_ after it
DrainUnlock(b, h) == 0

\* the critical section of one loop iteration of task k, where the reads of
\* the two slots returned rr and ro, and the unlock that ends it
DrainTake(k, rr, ro) ==
  /\ LET b == DrainBranch(rr, ro) IN
       /\ ready_object_' = DrainObjectSlot(b, ro)
       /\ ready_result_' = DrainResultSlot(b, rr, task[k].result)
       /\ task' = IF b = "object"
                  THEN [task EXCEPT ![k].cur = ro, ![k].pc = "lop"]
                  ELSE IF b = "result"
                  THEN [task EXCEPT ![k].rr = rr, ![k].pc = "lmerge"]
                  ELSE [task EXCEPT ![k].result = <<>>,
                                    ![k].pc = TaskFlow("parked")]
       /\ lock_' = DrainUnlock(b, TaskHolder(k))
  /\ UNCHANGED <<shapeVars, arity, has_callback, op_, pimpl_, count_, outstanding, implq,
                 result_, arg, rpc, mainpc, consumed, destroyed, events, nFused,
                 nMerge, nSet, nNotify, allSync>>

DrainCS(k) ==
  /\ task[k].pc = "cs"
  /\ lock_ = TaskHolder(k)
  /\ DrainTake(k, ready_result_, ready_object_)
  /\ err' = err

\* op_(*result, ready_object->arg())
DrainOp(k) ==
  /\ task[k].pc = "lop"
  /\ OpReturns
  /\ LET t == task[k] IN
       /\ task' = [task EXCEPT ![k].result = <<OpArg(op_, t.result[1], ObjectArg(t.cur))>>,
                               ![k].pc = "ldestroy"]
       /\ consumed' = Counted(consumed, t.cur)
       /\ events' = Logged(events, t.cur, <<"op">>)
  /\ UNCHANGED <<shapeVars, arity, has_callback, op_, pimpl_, count_, outstanding, implq,
                 ready_result_, ready_object_, lock_, result_, arg, rpc,
                 mainpc, err, destroyed, nFused, nMerge, nSet, nNotify,
                 allSync>>

\* ReduceObject::destroy(ready_object)
DrainDestroy(k) ==
  /\ task[k].pc = "ldestroy"
  /\ destroyed' = Counted(destroyed, task[k].cur)
  /\ events' = Logged(events, task[k].cur,
                      DestroyEvents(ObjectCallback(task[k].cur)))
  /\ task' = [task EXCEPT ![k].cur = 0, ![k].pc = "ldec"]
  /\ UNCHANGED <<shapeVars, arity, has_callback, op_, pimpl_, count_, outstanding, implq,
                 ready_result_, ready_object_, lock_, result_, arg, rpc,
                 mainpc, err, consumed, nFused, nMerge, nSet, nNotify,
                 allSync>>

\* this->dec() inside the loop
DrainDec(k) ==
  /\ task[k].pc = "ldec"
  /\ outstanding' = outstanding - 1
  /\ task' = [task EXCEPT ![k].pc = "lock"]
  /\ UNCHANGED <<shapeVars, arity, has_callback, op_, pimpl_, count_, implq, ready_result_,
                 ready_object_, lock_, result_, arg, rpc, mainpc, err,
                 consumed, destroyed, events, nFused, nMerge, nSet, nNotify, allSync>>

\* op_(*result, *ready_result); ready_result.reset()
DrainMerge(k) ==
  /\ task[k].pc = "lmerge"
  /\ LET t == task[k] IN
       task' = [task EXCEPT ![k].result = <<OpMerge(t.result[1], t.rr[1])>>,
                            ![k].rr = <<>>, ![k].pc = "lock"]
  /\ nMerge' = nMerge + 1
  /\ UNCHANGED <<shapeVars, arity, has_callback, op_, pimpl_, count_, outstanding, implq,
                 ready_result_, ready_object_, lock_, result_, arg, rpc,
                 mainpc, err, consumed, destroyed, events, nFused, nSet, nNotify,
                 allSync>>

\* this->dec() after reduce(result) has parked the result: once in
\* reduce_result_object, twice in reduce_object_object
TaskDec(k) ==
  /\ task[k].pc = "dec"
  /\ outstanding' = outstanding - 1
  /\ task' = [task EXCEPT ![k].ndec = @ - 1,
                          ![k].pc = IF task[k].ndec - 1 = 0
                                    THEN TaskFlow("decremented")
                                    ELSE "dec"]
  /\ UNCHANGED <<shapeVars, arity, has_callback, op_, pimpl_, count_, implq, ready_result_,
                 ready_object_, lock_, result_, arg, rpc, mainpc, err,
                 consumed, destroyed, events, nFused, nMerge, nSet, nNotify, allSync>>

\* ---- the system ----

Futures == 1..2

Next ==
  \/ \E S \in SUBSET (1..arity) : Add(S, FALSE)
  \/ Submit
  \/ \E i \in Args : \E f \in Futures : FutureSet(i, f)
  \/ \E i \in Args : ReadyLock(i)
  \/ \E i \in Args : ReadyCS(i)
  \/ \E i \in Args : ReadyAdd(i)
  \/ \E k \in Args : TaskOp(k)
  \/ \E k \in Args : TaskDestroy(k)
  \/ \E k \in Args : DrainLock(k)
  \/ \E k \in Args : DrainCS(k)
  \/ \E k \in Args : DrainOp(k)
  \/ \E k \in Args : DrainDestroy(k)
  \/ \E k \in Args : DrainDec(k)
  \/ \E k \in Args : DrainMerge(k)
  \/ \E k \in Args : TaskDec(k)
  \/ TaskRun

Spec == Init /\ [][Next]_vars

\* a client that also gives completion callbacks: add(arg, callback) with
\* callback not NULL, next to add(arg), whose callback is the default NULL
NextCallback ==
  \/ \E S \in SUBSET (1..arity) : Add(S, TRUE)
  \/ Next

SpecCallback == Init /\ [][NextCallback]_vars

\* the caller may also break the precondition of add() and submit()
NextMisuse ==
  \/ Next
  \/ AddAfterSubmit
  \/ SubmitAfterSubmit

SpecMisuse == Init /\ [][NextMisuse]_vars

\* ---- an op invocation that throws ----

\* op_ throws inside a reducer task: the exception leaves the task body, so
\* the statements after the call (destroy, reduce, dec) are not executed and
\* the task's result object is released
OpThrows(k) ==
  /\ Queued(k)
  /\ task[k].pc \in {"op", "lop", "lmerge"}
  /\ task' = [task EXCEPT ![k].pc = "thrown", ![k].result = <<>>,
                          ![k].rr = <<>>]
  /\ UNCHANGED <<shapeVars, arity, has_callback, op_, pimpl_, count_, outstanding, implq,
                 ready_result_, ready_object_, lock_, result_, arg, rpc,
                 mainpc, err, consumed, destroyed, events, nFused, nMerge, nSet,
                 nNotify, allSync>>

\* op_(*ready_result_) throws inside run(), after MADNESS_ASSERT(ready_result_)
\* has passed: result_.set and the callback are not reached
RunThrows ==
  /\ implq = "queued"
  /\ outstanding = 0
  /\ ready_result_ # <<>>
  /\ implq' = "thrown"
  /\ UNCHANGED <<shapeVars, arity, has_callback, op_, pimpl_, count_, outstanding,
                 ready_result_, ready_object_, lock_, result_, arg, rpc, task,
                 mainpc, err, consumed, destroyed, events, nFused, nMerge, nSet,
                 nNotify, allSync>>

\* op_(*ready_result_) throws inside the run() that submit() calls itself
\* (count_ == 0): dec() has been done, the exception leaves submit() before
\* delete pimpl_ and pimpl_ = NULL, so the ReduceTask keeps its implementation
\* and the caller may call submit() again, where dec() runs on a counter
\* that is zero already and takes it below zero
SubmitThrows ==
  /\ mainpc = "idle"
  /\ SubmitAllowed
  /\ SubmitInline
  /\ outstanding > 0 - MaxUnderflow
  /\ outstanding' = outstanding - 1
  /\ UNCHANGED <<shapeVars, arity, has_callback, op_, pimpl_, count_, implq,
                 ready_result_, ready_object_, lock_, result_, arg, rpc, task,
                 mainpc, err, consumed, destroyed, events, nFused, nMerge, nSet,
                 nNotify, allSync>>

NextFail ==
  \/ Next
  \/ \E k \in Args : OpThrows(k)
  \/ RunThrows
  \/ SubmitThrows

\* the op may also be a default-constructed ContractReduce, every assertion
\* of which fails
InitFail == Constructed(ClientOps \cup {DefaultOp})

SpecFail == InitFail /\ [][NextFail]_vars

\* ---- ReduceTask::~ReduceTask ----

\* ~ReduceTask() { delete pimpl_; }: the caller lets the ReduceTask object go
\* out of scope; when submit() has not been called the ReduceTaskImpl is
\* freed, after submit() pimpl_ is NULL and nothing is deleted
Destroy ==
  /\ mainpc = "idle"
  /\ mainpc' = "gone"
  /\ implq' = IF pimpl_ THEN "deleted" ELSE implq
  /\ UNCHANGED <<shapeVars, arity, has_callback, op_, pimpl_, count_, outstanding,
                 ready_result_, ready_object_, lock_, result_, arg, rpc, task,
                 err, consumed, destroyed, events, nFused, nMerge, nSet, nNotify,
                 allSync>>

\* the accesses so far that met reused memory
Reuses == IF "reused" \in err THEN 1 ELSE 0

\* the result parked in the ReduceTaskImpl that now lives in the freed memory
ForeignTile == [empty |-> FALSE, val |-> ArgValue(ForeignObject), perm |-> FALSE]

\* what a read of ready_result_ and of ready_object_ may return once the
\* memory of the ReduceTaskImpl has been freed and reused: a null or a
\* non-null pointer, whatever the slot held when the object was deleted, or
\* the result or the ReduceObject parked in the ReduceTaskImpl that now lives
\* there
GarbageResults == {<<>>, <<EmptyTile>>, <<ForeignTile>>}

GarbageObjects(i) ==
  {0, ForeignObject} \cup {j \in Args \ {i} : arg[j] # NoArg}

\* the values a write through a stale pointer may leave in a live object
GarbageValues == {0, ArgValue(MaxArgs + 1)}

\* parent_->ready(this) of an argument whose last future is set after the
\* ReduceTaskImpl was freed, or that was under way when it was freed: every
\* statement of the call reads freed memory (lock_ at the lock, the slots in
\* the critical section, world_ at taskq.add), and either goes on as if the
\* object were still there or stops the thread. In the critical section the
\* thread may stop inside ready_result_.reset(), which has nulled the slot and
\* then releases a control block the destructor has released already: the
\* slot is empty, the lock stays held and no task is spawned
DanglingReady(i) ==
  /\ implq = "deleted"
  /\ rpc[i] \in {"lock", "cs", "add"}
  /\ err' = err \cup {"dangling"}
  /\ \E outcome \in {"alive", "crashed", "reset"} :
       CASE outcome = "alive" ->
              /\ rpc' = rpc
              /\ ready_result_' = ready_result_
         [] outcome = "crashed" ->
              /\ rpc' = [rpc EXCEPT ![i] = "crashed"]
              /\ ready_result_' = ready_result_
         [] outcome = "reset" ->
              /\ rpc[i] = "cs"
              /\ ReadyBranch(ready_result_, ready_object_) = "result"
              /\ rpc' = [rpc EXCEPT ![i] = "crashed"]
              /\ ready_result_' = <<>>
  /\ UNCHANGED <<shapeVars, arity, has_callback, op_, pimpl_, count_, outstanding, implq,
                 ready_object_, lock_, result_, arg, task,
                 mainpc, consumed, destroyed, events, nFused, nMerge, nSet, nNotify,
                 allSync>>

\* lock_.lock() of such a ready() call while another thread is inside a
\* critical section: the Spinlock is freed memory and keeps nobody out; the
\* call enters, and the lock names it or still the thread that was inside
DanglingReadyLock(i) ==
  /\ implq = "deleted"
  /\ rpc[i] = "lock"
  /\ lock_ # 0
  /\ lock_' \in {lock_, i}
  /\ rpc' = [rpc EXCEPT ![i] = "cs"]
  /\ err' = err \cup {"dangling"}
  /\ UNCHANGED <<shapeVars, arity, has_callback, op_, pimpl_, count_, outstanding, implq,
                 ready_result_, ready_object_, result_, arg, task, mainpc,
                 consumed, destroyed, events, nFused, nMerge, nSet, nNotify, allSync>>

\* the critical section of such a ready() call that is inside while the lock
\* names another thread or nobody, and its unlock; or, when the freed memory
\* has been reused, a critical section whose branch is decided by what the
\* slots now hold, so that the call may spawn a reducer task on a result or
\* an object that is not there, or park its object next to a result that is
DanglingReadyCS(i) ==
  /\ implq = "deleted"
  /\ rpc[i] = "cs"
  /\ \/ /\ lock_ # i
        /\ ReadyTake(i, ready_result_, ready_object_)
        /\ err' = err \cup {"dangling"}
     \/ /\ Reuses < MaxReuse
        /\ \E rr \in GarbageResults : \E ro \in GarbageObjects(i) :
             /\ <<rr, ro>> # <<ready_result_, ready_object_>>
             /\ ReadyTake(i, rr, ro)
        /\ err' = err \cup {"dangling", "reused"}

\* lock_.lock() of the reduce() loop of a reducer task on the freed
\* ReduceTaskImpl while another thread is inside a critical section
DanglingDrainLock(k) ==
  /\ implq = "deleted"
  /\ task[k].pc = "lock"
  /\ lock_ # 0
  /\ lock_' \in {lock_, TaskHolder(k)}
  /\ task' = [task EXCEPT ![k].pc = "cs"]
  /\ err' = err \cup {"dangling"}
  /\ UNCHANGED <<shapeVars, arity, has_callback, op_, pimpl_, count_, outstanding, implq,
                 ready_result_, ready_object_, result_, arg, rpc, mainpc,
                 consumed, destroyed, events, nFused, nMerge, nSet, nNotify, allSync>>

\* the critical section of the reduce() loop of a reducer task that is
\* inside while the lock names another thread or nobody, and its unlock; or,
\* when the freed memory has been reused, a critical section whose branch is
\* decided by what the slots now hold, so that the task may merge a result
\* or reduce an object that is not there, or park its result next to one
\* that is
DanglingDrainCS(k) ==
  /\ implq = "deleted"
  /\ task[k].pc = "cs"
  /\ \/ /\ lock_ # TaskHolder(k)
        /\ DrainTake(k, ready_result_, ready_object_)
        /\ err' = err \cup {"dangling"}
     \/ /\ Reuses < MaxReuse
        /\ \E rr \in GarbageResults : \E ro \in GarbageObjects(0) :
             /\ <<rr, ro>> # <<ready_result_, ready_object_>>
             /\ DrainTake(k, rr, ro)
        /\ err' = err \cup {"dangling", "reused"}

\* a queued reducer task that runs a member function of the freed
\* ReduceTaskImpl: it goes on as if the object were still there, stops the
\* thread (in the critical section of reduce() possibly inside
\* ready_result_.reset(), with the slot nulled and the lock held), goes on
\* after a write that lands in a live argument object, or invokes an op_ read
\* from reused memory that holds no Impl, whose TA_ASSERT(pimpl_) throws
DanglingTask(k) ==
  /\ implq = "deleted"
  /\ Queued(k)
  /\ ~Ended(k)
  /\ \E outcome \in {"alive", "crashed", "reset", "corrupted", "thrown"} :
       CASE outcome = "alive" ->
              /\ err' = err \cup {"dangling"}
              /\ UNCHANGED <<task, arg, ready_result_>>
         [] outcome = "crashed" ->
              /\ err' = err \cup {"dangling"}
              /\ task' = [task EXCEPT ![k].pc = "crashed"]
              /\ UNCHANGED <<arg, ready_result_>>
         [] outcome = "reset" ->
              /\ task[k].pc = "cs"
              /\ DrainBranch(ready_result_, ready_object_) = "result"
              /\ err' = err \cup {"dangling"}
              /\ task' = [task EXCEPT ![k].pc = "crashed"]
              /\ ready_result_' = <<>>
              /\ arg' = arg
         [] outcome = "corrupted" ->
              /\ Reuses < MaxReuse
              /\ err' = err \cup {"dangling", "reused"}
              /\ task' = task
              /\ ready_result_' = ready_result_
              /\ \E j \in Args : \E v \in GarbageValues :
                   /\ arg[j] # NoArg
                   /\ destroyed[j] = 0
                   /\ arg[j].val # v
                   /\ arg' = [arg EXCEPT ![j].val = v]
         [] outcome = "thrown" ->
              /\ Reuses < MaxReuse
              /\ task[k].pc \in {"op", "lop", "lmerge"}
              /\ err' = err \cup {"dangling", "reused"}
              /\ UNCHANGED <<arg, ready_result_>>
              /\ task' = [task EXCEPT ![k].pc = "thrown", ![k].result = <<>>,
                                      ![k].rr = <<>>]
  /\ UNCHANGED <<shapeVars, arity, has_callback, op_, pimpl_, count_, outstanding, implq,
                 ready_object_, lock_, result_, rpc,
                 mainpc, consumed, destroyed, events, nFused, nMerge, nSet, nNotify,
                 allSync>>

NextDestroy ==
  \/ Next
  \/ Destroy
  \/ \E i \in Args : DanglingReady(i)
  \/ \E i \in Args : DanglingReadyLock(i)
  \/ \E i \in Args : DanglingReadyCS(i)
  \/ \E k \in Args : DanglingDrainLock(k)
  \/ \E k \in Args : DanglingDrainCS(k)
  \/ \E k \in Args : DanglingTask(k)

\* a task without completion callback, whose op has no result permutation
InitDestroy == Init /\ ~has_callback /\ op_ = ContractReduce(TRUE, 0)

SpecDestroy == InitDestroy /\ [][NextDestroy]_vars

\* ---- SparseShape: the calls of a client ----

\* the thresholds a client sets, the factors and the constants it passes
Thresholds == {Rat(-1, 1), Zero, Rat(1, 10), Rat(1, 2)}

Factors == {Rat(-2, 1), Zero, One, Rat(2, 1)}

Consts == {Zero, Rat(-1, 1)}

\* a norm tensor with the given extents and data
Tensor(range, data) == [range |-> range, data |-> data]

\* one (tile_norms, trange) pair for the public constructor: trange[d] holds
\* the tile boundaries of dimension d, and the range of the norms is
\* trange.tiles()
CtorInput(trange, data) ==
  [norms |-> Tensor(TilesRange(trange), data), trange |-> trange]

\* the (tile_norms, trange) pairs a client hands to the public constructor
\* with non-negative raw norms
ValidInputs ==
  {CtorInput(<<<<0, 1, 5>>>>, <<Zero, Zero>>),
   CtorInput(<<<<0, 1, 5>>>>, <<Rat(1, 2), Rat(2, 1)>>),
   CtorInput(<<<<0, 10, 20, 30>>>>, <<Rat(1, 2), Rat(3, 10), Rat(1, 20)>>),
   CtorInput(<<<<0, 1, 2>>>>, <<Rat(1, 1), Rat(2, 1)>>),
   CtorInput(<<<<0, 1, 2>>>>, <<Rat(3, 1), Rat(4, 1)>>),
   CtorInput(<<<<0, 1, 5>>, <<0, 1, 5>>>>,
             <<Rat(1, 1), Rat(8, 1), Rat(12, 1), Rat(64, 1)>>),
   CtorInput(<<<<0, 3>>, <<0, 5, 7>>>>, <<Rat(3, 1), Rat(1, 10)>>),
   CtorInput(<<<<0, 1, 5>>, <<0, 4, 5>>, <<0, 4>>>>,
             <<Zero, Zero, Zero, Zero>>),
   CtorInput(<<<<0, 1, 5>>, <<0, 4, 5>>, <<0, 4>>>>,
             <<Rat(16, 1), Rat(8, 1), Rat(192, 1), Rat(64, 1)>>)}

\* a client may also pass a negative raw norm
CtorInputs ==
  ValidInputs \cup {CtorInput(<<<<0, 1, 5>>>>, <<Rat(-1, 1), Rat(2, 1)>>)}

\* the (tile_norms, trange) pairs a process hands to the collective
\* constructor
WorldInputs ==
  {CtorInput(<<<<0, 1, 5>>>>, <<Zero, Zero>>),
   CtorInput(<<<<0, 1, 5>>>>, <<Rat(1, 2), Rat(2, 1)>>),
   CtorInput(<<<<0, 1, 5>>>>, <<Rat(-1, 1), Rat(2, 1)>>),
   CtorInput(<<<<0, 3>>, <<0, 5, 7>>>>, <<Rat(3, 1), Rat(1, 10)>>)}

\* the argument of a binary operation is shape itself or a shape the client
\* constructs from one of the inputs
Self == [norms |-> NoTensor, trange |-> <<>>]

OperandInputs == ValidInputs \cup {Self}

Operand(in) ==
  IF in = Self THEN shape ELSE SparseShape(in.norms, in.trange)

OperandSizes(in) ==
  IF in = Self THEN shape.size_vectors_ ELSE initialize_size_vectors(in.trange)

Rank(s) == Len(s.tile_norms_.range)

\* the permutation that moves every dimension one position up, the last one
\* to the front
Rotation(n) == [d \in 1..n |-> (d % n) + 1]

\* a call that returns the shape out, which the client keeps
Call(name, other, factor, p, out) ==
  /\ last' = [op |-> name, recv |-> shape, orig |-> origin, other |-> other,
              factor |-> factor, perm |-> p, thr |-> threshold_, out |-> out]
  /\ shape' = out
  /\ origin' = NoOrigin
  /\ nops' = nops + 1
  /\ UNCHANGED <<threshold_, gop, taskVars, aliasVars>>

\* SparseShape::threshold(thresh)
ShapeThreshold(thresh) ==
  /\ nops < MaxOps
  /\ gop = NoSum
  /\ threshold_' = thresh
  /\ last' = [NoCall EXCEPT !.op = "threshold", !.factor = thresh,
                            !.thr = threshold_]
  /\ origin' = NoOrigin
  /\ nops' = nops + 1
  /\ UNCHANGED <<shape, gop, taskVars, aliasVars>>

\* the constructor call SparseShape(in.norms, in.trange) ended with made
ShapeMade(in, made) ==
  IF made = Thrown
  THEN \* the exception leaves the constructor: no shape is made
       /\ last' = [NoCall EXCEPT !.op = "ctor_thrown", !.thr = threshold_]
       /\ UNCHANGED <<shape, origin>>
  ELSE /\ shape' = made
       /\ origin' = [norms |-> in.norms.data, trange |-> in.trange,
                     thr |-> threshold_]
       /\ last' = [NoCall EXCEPT !.op = "ctor", !.thr = threshold_,
                                 !.out = made]

\* SparseShape(tile_norms, trange)
ShapeConstruct(in) ==
  /\ nops < MaxOps
  /\ gop = NoSum
  /\ ShapeMade(in, SparseShape(in.norms, in.trange))
  /\ nops' = nops + 1
  /\ UNCHANGED <<threshold_, gop, taskVars, aliasVars>>

\* SparseShape(world, tile_norms, trange) up to the all-reduce: the clone of
\* the norms, size_vectors_, the two assertions, and the entry into
\* world.gop.sum, where the call waits for the other processes
ShapeCollective(in) ==
  /\ nops < MaxOps
  /\ gop = NoSum
  /\ gop' = [buf |-> in.norms, trange |-> in.trange, arrived |-> 1]
  /\ UNCHANGED <<threshold_, shape, origin, last, nops, taskVars, aliasVars>>

\* world.gop.sum(tile_norms_.data(), tile_norms_.size()): another process of
\* the world makes the same constructor call with its norms pin.norms over
\* the same tiled range, and the all-reduce adds them element by element,
\* in the order in which the contributions arrive
GopSum(pin) ==
  /\ gop # NoSum
  /\ gop.arrived < NProcs
  /\ pin.trange = gop.trange
  /\ gop' = [gop EXCEPT !.buf = TensorAdd(@, pin.norms), !.arrived = @ + 1]
  /\ UNCHANGED <<threshold_, shape, origin, last, nops, taskVars, aliasVars>>

\* SparseShape(world, tile_norms, trange) after the all-reduce: gop.sum
\* returns with the sum over all processes in tile_norms_, and normalize()
ShapeCollectiveDone ==
  /\ gop # NoSum
  /\ gop.arrived = NProcs
  /\ ShapeMade([norms |-> gop.buf, trange |-> gop.trange],
               SparseShape(gop.buf, gop.trange))
  /\ gop' = NoSum
  /\ nops' = nops + 1
  /\ UNCHANGED <<threshold_, taskVars, aliasVars>>

\* shape.perm(p)
ShapePerm(p) ==
  /\ nops < MaxOps
  /\ gop = NoSum
  /\ ~empty(shape)
  /\ Call("perm", NoShape, Zero, p, perm(shape, p))

\* shape.scale(factor) and shape.scale(factor, p)
ShapeScale(variant, factor) ==
  /\ nops < MaxOps
  /\ gop = NoSum
  /\ ~empty(shape)
  /\ LET p == Rotation(Rank(shape)) IN
     CASE variant = "scale" ->
            Call(variant, NoShape, factor, <<>>, scale(shape, factor))
       [] variant = "scale_perm" ->
            Call(variant, NoShape, factor, p, scale_perm(shape, factor, p))

\* shape.add(...): the six overloads
AddCall(variant, in, other, factor, p) ==
  CASE variant = "add" ->
         Call(variant, other, Zero, <<>>, add(shape, other))
    [] variant = "add_perm" ->
         Call(variant, other, Zero, p, add_perm(shape, other, p))
    [] variant = "add_factor" ->
         Call(variant, other, factor, <<>>, add_factor(shape, other, factor))
    [] variant = "add_factor_perm" ->
         Call(variant, other, factor, p,
              add_factor_perm(shape, other, factor, p))
    [] variant = "add_value" ->
         /\ in = Self
         /\ Call(variant, NoShape, factor, <<>>, add_value(shape, factor))
    [] variant = "add_value_perm" ->
         /\ in = Self
         /\ Call(variant, NoShape, factor, p,
                 add_value_perm(shape, factor, p))

ShapeAdd(variant, in, factor) ==
  /\ nops < MaxOps
  /\ gop = NoSum
  /\ ~empty(shape)
  /\ OperandSizes(in) = shape.size_vectors_
  /\ AddCall(variant, in, Operand(in), factor, Rotation(Rank(shape)))

\* shape.subt(...): the six overloads
SubtCall(variant, in, other, factor, p) ==
  CASE variant = "subt" ->
         Call(variant, other, Zero, <<>>, subt(shape, other))
    [] variant = "subt_perm" ->
         Call(variant, other, Zero, p, subt_perm(shape, other, p))
    [] variant = "subt_factor" ->
         Call(variant, other, factor, <<>>, subt_factor(shape, other, factor))
    [] variant = "subt_factor_perm" ->
         Call(variant, other, factor, p,
              subt_factor_perm(shape, other, factor, p))
    [] variant = "subt_value" ->
         /\ in = Self
         /\ Call(variant, NoShape, factor, <<>>, subt_value(shape, factor))
    [] variant = "subt_value_perm" ->
         /\ in = Self
         /\ Call(variant, NoShape, factor, p,
                 subt_value_perm(shape, factor, p))

ShapeSubt(variant, in, factor) ==
  /\ nops < MaxOps
  /\ gop = NoSum
  /\ ~empty(shape)
  /\ OperandSizes(in) = shape.size_vectors_
  /\ SubtCall(variant, in, Operand(in), factor, Rotation(Rank(shape)))

\* shape.mult(...): the four overloads
MultCall(variant, other, factor, p) ==
  CASE variant = "mult" ->
         Call(variant, other, Zero, <<>>, mult(shape, other))
    [] variant = "mult_perm" ->
         Call(variant, other, Zero, p, mult_perm(shape, other, p))
    [] variant = "mult_factor" ->
         Call(variant, other, factor, <<>>, mult_factor(shape, other, factor))
    [] variant = "mult_factor_perm" ->
         Call(variant, other, factor, p,
              mult_factor_perm(shape, other, factor, p))

ShapeMult(variant, in, factor) ==
  /\ nops < MaxOps
  /\ gop = NoSum
  /\ ~empty(shape)
  /\ OperandSizes(in) = shape.size_vectors_
  /\ MultCall(variant, Operand(in), factor, Rotation(Rank(shape)))

\* the last contract size vectors of left are the first ones of right
Contractible(left_sizes, right_sizes, contract) ==
  /\ contract <= Len(left_sizes)
  /\ contract <= Len(right_sizes)
  /\ SubSeq(left_sizes, Len(left_sizes) - contract + 1, Len(left_sizes))
       = SubSeq(right_sizes, 1, contract)

GemmCall(variant, other, factor, h) ==
  CASE variant = "gemm" ->
         Call(variant, other, factor, <<>>, gemm(shape, other, factor, h))
    [] variant = "gemm_perm" ->
         Call(variant, other, factor, Rotation(h.result_rank),
              gemm_perm(shape, other, factor, h, Rotation(h.result_rank)))

\* shape.gemm(other, factor, gemm_helper) and the overload with a
\* permutation of the result, contracting the last dimensions of shape with
\* the first dimensions of other
ShapeGemm(variant, in, factor, contract) ==
  /\ nops < MaxOps
  /\ gop = NoSum
  /\ ~empty(shape)
  /\ Contractible(shape.size_vectors_, OperandSizes(in), contract)
  /\ Rank(shape) + Len(OperandSizes(in)) - 2 * contract \in 1..3
  /\ GemmCall(variant, Operand(in), factor,
              GemmHelper(Rank(shape), Len(OperandSizes(in)),
                         Rank(shape) + Len(OperandSizes(in)) - 2 * contract))

ScaleVariants == {"scale", "scale_perm"}

AddVariants == {"add", "add_perm", "add_factor", "add_factor_perm",
                "add_value", "add_value_perm"}

SubtVariants == {"subt", "subt_perm", "subt_factor", "subt_factor_perm",
                 "subt_value", "subt_value_perm"}

MultVariants == {"mult", "mult_perm", "mult_factor", "mult_factor_perm"}

GemmVariants == {"gemm", "gemm_perm"}

\* the factors passed to the binary operations
BinaryFactors == {Zero, Rat(-2, 1)}

\* the scalar arguments an overload is called with
FactorsOf(variant) ==
  IF variant \in {"add_factor", "add_factor_perm", "subt_factor",
                  "subt_factor_perm", "mult_factor", "mult_factor_perm"}
  THEN BinaryFactors
  ELSE IF variant \in {"add_value", "add_value_perm", "subt_value",
                       "subt_value_perm"}
  THEN Consts
  ELSE {Zero}

ShapeNext ==
  \/ \E t \in Thresholds : ShapeThreshold(t)
  \/ \E in \in CtorInputs : ShapeConstruct(in)
  \/ \E in \in WorldInputs : ShapeCollective(in)
  \/ \E pin \in WorldInputs : GopSum(pin)
  \/ ShapeCollectiveDone
  \/ \E p \in Perms(Rank(shape)) : ShapePerm(p)
  \/ \E v \in ScaleVariants : \E f \in Factors : ShapeScale(v, f)
  \/ \E v \in AddVariants : \E in \in OperandInputs :
       \E f \in FactorsOf(v) : ShapeAdd(v, in, f)
  \/ \E v \in SubtVariants : \E in \in OperandInputs :
       \E f \in FactorsOf(v) : ShapeSubt(v, in, f)
  \/ \E v \in MultVariants : \E in \in OperandInputs :
       \E f \in FactorsOf(v) : ShapeMult(v, in, f)
  \/ \E v \in GemmVariants : \E in \in OperandInputs :
       \E f \in BinaryFactors \cup {One} : \E c \in 0..2 :
         ShapeGemm(v, in, f, c)

\* a client of SparseShape; no ReduceTask is used
ShapeInit == Init /\ arity = 1 /\ ~has_callback /\ op_ = ContractReduce(TRUE, 0)

ShapeSpec == ShapeInit /\ [][ShapeNext]_vars

\* ---- SparseShape: the calls of a client on shapes that share buffers ----

\* a call that allocates and writes buffers as eff says and returns eff.out,
\* which the client keeps in r; a call that returns is in no all-reduce
Returns(name, eff) ==
  /\ heap' = HeapWrite(heap \o eff.cells, eff.inplace)
  /\ client' = [client EXCEPT !.r = eff.out, !.ret = <<name>>]
  /\ nops' = nops + 1
  /\ gop' = NoSum
  /\ UNCHANGED <<threshold_, shape, origin, last, taskVars>>

\* a const query that returns the value v
Answers(name, v) ==
  /\ client' = [client EXCEPT !.ret = <<name, v>>]
  /\ nops' = nops + 1
  /\ UNCHANGED <<heap, threshold_, shape, origin, last, gop, taskVars>>

\* the caller makes the norm tensor it will hand to the constructor
AliasTensor(in) ==
  /\ client.input = 0
  /\ gop = NoSum
  /\ heap' = <<in.norms>>
  /\ client' = [client EXCEPT !.input = 1, !.trange = in.trange]
  /\ UNCHANGED <<threshold_, shape, origin, last, nops, gop, taskVars>>

\* r = SparseShape(tile_norms, trange)
AliasConstruct ==
  /\ nops < MaxOps
  /\ gop = NoSum
  /\ client.input # 0
  /\ IF SparseShape(heap[client.input], client.trange) = Thrown
     THEN \* the exception leaves the constructor, the clone is released
          /\ client' = [client EXCEPT !.ret = <<"ctor_thrown">>]
          /\ nops' = nops + 1
          /\ UNCHANGED <<heap, threshold_, shape, origin, last, gop, taskVars>>
     ELSE Returns("ctor", CtorEffect(client.input, client.trange))

\* r = SparseShape(world, tile_norms, trange) up to the all-reduce
AliasCollective ==
  /\ nops < MaxOps
  /\ gop = NoSum
  /\ client.input # 0
  /\ gop' = [buf |-> heap[client.input], trange |-> client.trange,
             arrived |-> 1]
  /\ UNCHANGED <<heap, client, threshold_, shape, origin, last, nops,
                 taskVars>>

\* r = SparseShape(world, tile_norms, trange) after the all-reduce
AliasCollectiveDone ==
  /\ gop # NoSum
  /\ gop.arrived = NProcs
  /\ IF SparseShape(gop.buf, gop.trange) = Thrown
     THEN \* the exception leaves the constructor, the clone is released
          /\ client' = [client EXCEPT !.ret = <<"ctor_thrown">>]
          /\ nops' = nops + 1
          /\ gop' = NoSum
          /\ UNCHANGED <<heap, threshold_, shape, origin, last, taskVars>>
     ELSE Returns("ctor", CollectiveEffect(client.input, gop.trange, gop.buf))

\* x = y: the copy constructor and operator=, a shallow copy
AliasAssign(x, y) ==
  /\ x # y
  /\ gop = NoSum
  /\ client[y] # NullShape
  /\ client[x] # client[y]
  /\ client' = [client EXCEPT ![x] = client[y], !.ret = <<"copy">>]
  /\ UNCHANGED <<heap, threshold_, shape, origin, last, nops, gop, taskVars>>

\* r = a.perm(p)
AliasPerm(p) ==
  /\ nops < MaxOps
  /\ gop = NoSum
  /\ client.a # NullShape
  /\ Returns("perm", NewSizesEffect(perm(Deref(client.a), p)))

\* r = a.scale(factor) and r = a.scale(factor, p)
AliasScale(variant, factor) ==
  /\ nops < MaxOps
  /\ gop = NoSum
  /\ client.a # NullShape
  /\ LET a == Deref(client.a)
         p == Rotation(Rank(a))
     IN
     CASE variant = "scale" ->
            Returns(variant, SharedSizesEffect(client.a,
                               UnaryScale(a.tile_norms_, factor)))
       [] variant = "scale_perm" ->
            Returns(variant, NewSizesEffect(scale_perm(a, factor, p)))

\* r = a.add(b ...), r = a.add(value ...), and the same calls of subt
AliasAdd(variant, factor) ==
  /\ nops < MaxOps
  /\ gop = NoSum
  /\ client.a # NullShape
  /\ LET a == Deref(client.a)
         b == Deref(client.b)
         p == Rotation(Rank(a))
     IN
     /\ variant \notin {"add_value", "add_value_perm", "subt_value",
                        "subt_value_perm"}
          => /\ client.b # NullShape
             /\ b.size_vectors_ = a.size_vectors_
     /\ CASE variant \in {"add", "subt"} ->
            Returns(variant, SharedSizesEffect(client.a,
                               TensorAdd(a.tile_norms_, b.tile_norms_)))
       [] variant \in {"add_perm", "subt_perm"} ->
            Returns(variant, NewSizesEffect(add_perm(a, b, p)))
       [] variant \in {"add_factor", "subt_factor"} ->
            Returns(variant, SharedSizesEffect(client.a,
                               BinaryAdd(a.tile_norms_, b.tile_norms_, factor)))
       [] variant \in {"add_factor_perm", "subt_factor_perm"} ->
            Returns(variant, NewSizesEffect(add_factor_perm(a, b, factor, p)))
       [] variant \in {"add_value", "subt_value"} ->
            /\ Returns(variant, SharedSizesEffect(client.a,
                                  add_value(a, factor).tile_norms_))
       [] variant \in {"add_value_perm", "subt_value_perm"} ->
            /\ Returns(variant, NewSizesEffect(add_value_perm(a, factor, p)))

\* r = a.mult(b ...): the four overloads
AliasMult(variant, factor) ==
  /\ nops < MaxOps
  /\ gop = NoSum
  /\ client.a # NullShape
  /\ client.b # NullShape
  /\ LET a == Deref(client.a)
         b == Deref(client.b)
         p == Rotation(Rank(a))
     IN
     /\ b.size_vectors_ = a.size_vectors_
     /\ CASE variant = "mult" ->
            Returns(variant, MultEffect(client.a,
                               TensorMult(a.tile_norms_, b.tile_norms_)))
       [] variant = "mult_perm" ->
            Returns(variant, MultPermEffect(client.a,
                               TensorPermute(TensorMult(a.tile_norms_,
                                                        b.tile_norms_), p), p))
       [] variant = "mult_factor" ->
            Returns(variant, MultEffect(client.a,
                               TensorMultScaled(a.tile_norms_, b.tile_norms_,
                                                StdAbs(factor))))
       [] variant = "mult_factor_perm" ->
            Returns(variant, MultPermEffect(client.a,
                               TensorPermute(
                                 TensorMultScaled(a.tile_norms_, b.tile_norms_,
                                                  StdAbs(factor)), p), p))

\* r = a.gemm(b, factor, gemm_helper) and the overload with a permutation
AliasGemm(variant, factor, contract) ==
  /\ nops < MaxOps
  /\ gop = NoSum
  /\ client.a # NullShape
  /\ client.b # NullShape
  /\ LET a == Deref(client.a)
         b == Deref(client.b)
         h == GemmHelper(Rank(a), Rank(b), Rank(a) + Rank(b) - 2 * contract)
         p == Rotation(h.result_rank)
     IN
     /\ Contractible(a.size_vectors_, b.size_vectors_, contract)
     /\ Rank(a) + Rank(b) - 2 * contract \in 1..3
     /\ CASE variant = "gemm" ->
            Returns(variant, GemmEffect(client.a, client.b, factor, h))
       [] variant = "gemm_perm" ->
            Returns(variant, NewSizesEffect(gemm_perm(a, b, factor, h, p)))

\* a.is_zero(i), a.sparsity() and a.validate(range)
AliasQuery(q) ==
  /\ nops < MaxOps
  /\ gop = NoSum
  /\ client.a # NullShape
  /\ LET a == Deref(client.a) IN
     CASE q = "is_zero" ->
            \E i \in 1..Len(a.tile_norms_.data) : Answers(q, is_zero(a, i))
       [] q = "sparsity" -> Answers(q, sparsity(a))
       [] q = "validate" ->
            \E range \in {a.tile_norms_.range, <<1>>} :
              Answers(q, validate(a, range))

Queries == {"is_zero", "sparsity", "validate"}

AliasNext ==
  \/ \E in \in CtorInputs : AliasTensor(in)
  \/ AliasConstruct
  \/ AliasCollective
  \/ \E pin \in CtorInputs : GopSum(pin)
  \/ AliasCollectiveDone
  \/ \E x \in {"a", "b"} : \E y \in {"a", "b", "r"} : AliasAssign(x, y)
  \/ \E p \in Perms(Rank(Deref(client.a))) : AliasPerm(p)
  \/ \E v \in ScaleVariants : \E f \in Factors : AliasScale(v, f)
  \/ \E v \in AddVariants \cup SubtVariants : \E f \in FactorsOf(v) :
       AliasAdd(v, f)
  \/ \E v \in MultVariants : \E f \in FactorsOf(v) : AliasMult(v, f)
  \/ \E v \in GemmVariants : \E f \in BinaryFactors \cup {One} :
       \E c \in 0..2 : AliasGemm(v, f, c)
  \/ \E q \in Queries : AliasQuery(q)

\* a client of SparseShape whose shapes share buffers; no ReduceTask is used
AliasSpec == ShapeInit /\ [][AliasNext]_vars

\* the reducer tasks and ready() calls run to completion once started, the
\* futures of added arguments are eventually set, and the task queue
\* eventually runs a task whose dependencies are met
Progress ==
  \/ \E i \in Args : \E f \in Futures : FutureSet(i, f)
  \/ \E i \in Args : ReadyLock(i) \/ ReadyCS(i) \/ ReadyAdd(i)
  \/ \E k \in Args : TaskOp(k) \/ TaskDestroy(k) \/ TaskDec(k)
  \/ \E k \in Args : DrainLock(k) \/ DrainCS(k) \/ DrainOp(k)
  \/ \E k \in Args : DrainDestroy(k) \/ DrainDec(k) \/ DrainMerge(k)
  \/ TaskRun

LiveSpec == Init /\ [][Next]_vars /\ WF_vars(Progress)

\* ---- derived quantities ----

\* the arguments created so far (add() counts one when it returns)
Added == {i \in Args : arg[i] # NoArg}

\* the reducer tasks that are queued or running
ActiveTasks == {k \in Args : Queued(k) /\ ~Ended(k)}

RECURSIVE SumConsumed(_)
SumConsumed(n) == IF n = 0 THEN 0 ELSE consumed[n] + SumConsumed(n - 1)

\* op invocations that consumed arguments: single-argument steps plus fused steps
ConsumingOps == SumConsumed(MaxArgs) - nFused

\* the fold of the first n added values, in the order of addition
RECURSIVE FoldArgs(_)
FoldArgs(n) == IF n = 0 THEN OpIdentity ELSE OpArg(op_, FoldArgs(n - 1), arg[n].val)

\* the terminal step has run
Finished == nSet > 0

\* ---- claims ----

\* C1: every added argument is read by exactly one argument-consuming op
\* invocation and destroyed exactly once: never twice, never destroyed before
\* it is consumed, and none is left over when the result is set.
C1_ConsumedOnce ==
  /\ \A i \in Args : consumed[i] <= 1 /\ destroyed[i] <= consumed[i]
  /\ \A i \in Args : (i \notin Added) => consumed[i] = 0
  /\ Finished => \A i \in 1..count_ : consumed[i] = 1 /\ destroyed[i] = 1

C1_Witness ==
  /\ Finished
  /\ count_ >= 3
  /\ nFused >= 1
  /\ \A i \in 1..count_ : consumed[i] = 1 /\ destroyed[i] = 1

\* C2: the value set on the result future is the post-processing of the fold
\* of all added values, whatever the order in which the arguments became ready
\* and however the reducer tasks interleaved.
C2_ResultIsFold ==
  Finished => result_ = <<OpPost(op_, FoldArgs(count_))>>

C2_Witness ==
  /\ Finished
  /\ count_ >= 3
  /\ nFused >= 1
  /\ nMerge >= 1
  /\ result_[1].val = 7

\* C3: the result future is set at most once, and only after submit() and
\* after every added argument has been consumed.
C3_SetOnceAfterAll ==
  /\ nSet <= 1
  /\ (result_ # <<>>) = (nSet = 1)
  /\ Finished => /\ ~pimpl_
                 /\ \A i \in Added : consumed[i] = 1
                 /\ ActiveTasks = {}

C3_Witness ==
  /\ nSet = 1
  /\ count_ >= 2
  /\ implq = "done"

\* C4: once submit() has been called, the result future is eventually set
\* (the futures of the added arguments being eventually set and queued tasks
\* eventually run), and an argument parked in ready_object_ is eventually
\* taken out of it.
C4_EventuallySet ==
  /\ (~pimpl_) ~> (result_ # <<>>)
  /\ (ready_object_ # 0) ~> (ready_object_ = 0)

C4_Witness ==
  /\ result_ # <<>>
  /\ nFused >= 1
  /\ ~allSync

\* C5: when the lock is not held, ready_result_ and ready_object_ are not both
\* populated.
C5_OneSlot ==
  (lock_ = 0) => ~(ready_result_ # <<>> /\ ready_object_ # 0)

C5_Witness ==
  /\ lock_ = 0
  /\ ready_object_ # 0
  /\ \E k \in Args : task[k].pc = "lock"

\* C6 as claimed: at most one reducer task is queued or running at any time.
C6_AtMostOneReducer == Cardinality(ActiveTasks) <= 1

\* C6 as amended: several reducer tasks can be queued or running at once, but
\* each of them still owes a decrement for an argument it was spawned with,
\* so their number never exceeds outstanding minus the submit sentinel.
C6_ReducersBounded ==
  Cardinality(ActiveTasks) <= outstanding - (IF pimpl_ THEN 1 ELSE 0)

C6_Witness ==
  /\ Cardinality(ActiveTasks) >= 2
  /\ \E k \in ActiveTasks : task[k].kind = "result_object"
  /\ \E k \in ActiveTasks : task[k].kind = "object_object"

\* C7: submit() with no argument added runs the terminal step in the caller:
\* when it returns the future holds op(op()), the completion callback (when
\* there is one) has been notified once, and no task was queued.
C7_EmptySubmit ==
  (~pimpl_ /\ count_ = 0) =>
    /\ result_ = <<OpPost(op_, OpIdentity)>>
    /\ nSet = 1
    /\ nNotify = (IF has_callback THEN 1 ELSE 0)
    /\ implq = "none"
    /\ \A k \in Args : task[k] = NoTask

C7_Witness ==
  /\ ~pimpl_
  /\ count_ = 0
  /\ has_callback
  /\ nNotify = 1
  /\ result_ = <<EmptyTile>>

\* C8: after submit(), add() and submit() fail on their precondition: no
\* argument is created, count_ does not change, outstanding is not
\* incremented, the task is not queued or run again, a result already set
\* stays, and the failing call changes nothing.
C8_RejectedAfterSubmit ==
  [][(~pimpl_) =>
       /\ ~pimpl_'
       /\ count_' = count_
       /\ \A i \in Args : (arg[i] = NoArg) => (arg'[i] = NoArg)
       /\ outstanding' <= outstanding
       /\ (implq' # implq) => (implq = "queued" /\ implq' = "done")
       /\ (result_ # <<>>) => (result_' = result_)
       /\ (err' # err) =>
            UNCHANGED <<count_, outstanding, implq, result_, arg, rpc, task,
                        ready_result_, ready_object_, nSet, nNotify>>]_vars

C8_Witness ==
  /\ err = {"add", "submit"}
  /\ count_ >= 1
  /\ result_ # <<>>

\* the state shows that an op invocation has thrown: run() or a reducer
\* task has ended by an exception, or the ReduceTask has its implementation
\* while the counter is below the count of submit() plus one for every
\* argument not yet read (run() has thrown inside submit(), after dec())
Failed ==
  \/ implq = "thrown"
  \/ pimpl_ /\ outstanding < 1 + Cardinality({i \in Added : consumed[i] = 0})
  \/ \E k \in Args : task[k].pc = "thrown"

\* nothing is running or can run any more
Quiescent ==
  /\ ActiveTasks = {}
  /\ \A i \in Args : rpc[i] \in {"none", "done"} /\ arg[i].pend = {}
  /\ ~pimpl_
  /\ implq # "queued" \/ outstanding # 0

\* C9 as claimed: once an op invocation has failed, no further reducer task is
\* scheduled, no queued reducer calls op, no value is set on the result
\* future, and the result future ends up set (to the error).
C9_Poisoned ==
  [][Failed =>
       /\ \A k \in Args : (task[k].kind = "none") => (task'[k].kind = "none")
       /\ consumed' = consumed
       /\ nMerge' = nMerge
       /\ nSet' = nSet
       /\ (Quiescent' => result_' # <<>>)]_vars

\* C10 as claimed: with N >= 1 arguments all ready when added, at most N-1
\* argument-consuming op invocations precede the terminal step.
C10_AtMostNMinusOne ==
  (Finished /\ allSync /\ count_ >= 1) => ConsumingOps <= count_ - 1

\* C10 as amended: with N >= 1 arguments all ready when added, exactly N - F
\* argument-consuming op invocations precede the terminal step, F being the
\* number of fused two-argument invocations; hence at most N.
C10_AtMostN ==
  (Finished /\ allSync /\ count_ >= 1) =>
    /\ ConsumingOps = count_ - nFused
    /\ ConsumingOps <= count_

C10_Witness ==
  /\ Finished
  /\ allSync
  /\ count_ >= 3
  /\ ConsumingOps = count_

\* the thread that holds lock_ is inside a critical section of ready() or of
\* the drain loop
HolderInCS ==
  /\ \A i \in Args : (lock_ = i) => rpc[i] = "cs"
  /\ \A k \in Args : (lock_ = TaskHolder(k)) => task[k].pc = "cs"

\* a step changes one of the two slots
SlotUpdate == ready_result_' # ready_result_ \/ ready_object_' # ready_object_

\* a step invokes op, destroys an argument, decrements outstanding or puts a
\* reducer task into the task queue
OutsideAction ==
  \/ consumed' # consumed
  \/ destroyed' # destroyed
  \/ nMerge' # nMerge
  \/ outstanding' < outstanding
  \/ \E k \in Args : ~Queued(k) /\ Queued(k)'

\* what every step does with the lock
LockDiscipline ==
  /\ SlotUpdate => (lock_ # 0 /\ lock_' = 0)
  /\ OutsideAction => (lock_' = lock_)
  /\ (lock_' # lock_) => ((lock_ = 0) # (lock_' = 0))

\* C11: a thread never holds the lock while it invokes op, destroys an
\* argument, decrements outstanding or submits a task: the holder of the lock
\* is always inside a critical section, the slots change only in the step
\* that ends with the release, a step that invokes op, destroys, decrements
\* or submits leaves the lock alone, and the lock changes hands only through
\* one acquisition of the free lock followed by one release by its holder.
C11_LockOnlyInCS ==
  /\ []HolderInCS
  /\ [][LockDiscipline]_vars

C11_Witness ==
  /\ \E k \in Args : task[k].pc = "lop"
  /\ \E i \in Args : lock_ = i /\ rpc[i] = "cs"

\* the ReduceTask object has been destroyed and nothing is left to run
Settled ==
  /\ mainpc = "gone"
  /\ \A i \in Args : rpc[i] \in {"none", "done"} /\ arg[i].pend = {}
  /\ \A k \in Args : Queued(k) => task[k].pc = "done"

\* the step of ~ReduceTask on a task that was not submitted has the effect
\* of submit()
DestructorSubmits ==
  (mainpc # "gone" /\ mainpc' = "gone" /\ pimpl_) =>
    (implq' = "queued" \/ result_' # <<>>)

\* C12 as claimed: the destructor of a ReduceTask that was not submitted
\* submits the reduction, so no ready() call or reducer task ever runs on a
\* freed ReduceTaskImpl, and once everything has run every added argument has
\* been consumed and destroyed once and the result is set.
C12_DestructorSubmits ==
  /\ [][DestructorSubmits]_vars
  /\ []("dangling" \notin err)
  /\ [](Settled => /\ result_ # <<>>
                   /\ \A i \in Added : consumed[i] = 1 /\ destroyed[i] = 1)

\* ---- SparseShape: what the claims speak about ----

\* the stored norms of s
Norms(s) == s.tile_norms_.data

\* every stored norm of s is exactly 0 or at least t
Pruned(s, t) ==
  \A o \in 1..Len(Norms(s)) : Norms(s)[o] = Zero \/ ~Less(Norms(s)[o], t)

\* every stored norm of s is exactly 0
AllZero(s) == \A o \in 1..Len(Norms(s)) : Norms(s)[o] = Zero

\* the last call returned a shape: the public constructor or one of perm,
\* scale, add, subt, mult and gemm
Returned == last.op \notin {"none", "threshold", "ctor_thrown"}

\* C13: under the threshold of the call, the shape returned by the public
\* constructor or by perm, scale, add, subt, mult or gemm (every variant, of
\* every rank) on operands whose stored norms are all 0 or >= t has every
\* stored norm 0 or >= t.
C13_ResultPruned ==
  (Returned /\ Pruned(last.recv, last.thr) /\ Pruned(last.other, last.thr))
    => Pruned(last.out, last.thr)

\* C14: in every reachable state, whatever constructions, operations and
\* threshold updates came before, is_zero(i) of the shape at an in-range tile
\* i implies that the norm stored at i is exactly 0.
C14_IsZeroMeansStoredZero ==
  ~empty(shape) =>
    \A i \in 1..Len(Norms(shape)) :
      is_zero(shape, i) => Norms(shape)[i] = Zero

\* C15: threshold(t) with t <= 0 is rejected and leaves the threshold as it
\* was, and the threshold is positive in every reachable state.
C15_ThresholdPositive ==
  /\ Less(Zero, threshold_)
  /\ (last.op = "threshold" /\ ~Less(Zero, last.factor))
       => threshold_ = last.thr

\* 1 / sqrt(extent in dimension d) of the tile with ordinal o (from 1) of s
InvSqrtExtent(s, o, d) ==
  Over(One,
       StdSqrt(FromInt(
         s.size_vectors_[d][Idx(s.tile_norms_.range, o - 1)[d] + 1])))

\* v / sqrt(number of elements of tile o of s) as float arithmetic yields it:
\* one division in one dimension, v times the factors 1 / sqrt(extent) of
\* the dimensions in more, those of the leading half multiplied first
ValueShare(s, v, o) ==
  CASE Rank(s) = 1 -> Over(v, StdSqrt(FromInt(s.size_vectors_[1][o])))
    [] Rank(s) = 2 ->
         Times(Times(v, InvSqrtExtent(s, o, 1)), InvSqrtExtent(s, o, 2))
    [] Rank(s) = 3 ->
         Times(Times(v, Times(InvSqrtExtent(s, o, 1),
                              InvSqrtExtent(s, o, 2))),
               InvSqrtExtent(s, o, 3))

\* the norms add(v) leaves on the all-zero shape s under the threshold t
ValueNorms(s, v, t) ==
  [range |-> s.tile_norms_.range,
   data |-> [o \in 1..Len(Norms(s)) |->
               IF Less(ValueShare(s, StdAbs(v), o), t) THEN Zero
               ELSE ValueShare(s, StdAbs(v), o)]]

\* the last call derived a shape from a non-empty shape whose stored norms
\* are all 0, every shape operand being all 0 as well
DerivedFromZero ==
  /\ last.op \notin {"none", "threshold", "ctor", "ctor_thrown"}
  /\ ~empty(last.recv)
  /\ AllZero(last.recv)
  /\ AllZero(last.other)

\* the overloads that take a scalar constant
ValueVariants ==
  {"add_value", "add_value_perm", "subt_value", "subt_value_perm"}

\* C16 as claimed: every shape derived from an all-zero shape by perm,
\* scale, add, subt, mult or gemm (add(v) included) has is_zero(i) true at
\* every tile i.
C16_ZeroStaysZero ==
  DerivedFromZero =>
    \A i \in 1..Len(Norms(last.out)) : is_zero(last.out, i)

\* C16 amended: a shape derived from an all-zero shape by perm, scale,
\* add(other), subt(other), mult or gemm stores exactly 0 at every tile, so
\* is_zero is true everywhere exactly when the threshold is positive; add(v)
\* and subt(v) store |v| / sqrt(volume of the tile), or 0 where that is
\* below the threshold, the overloads with a permutation at the permuted
\* tile.
C16_ZeroDerived ==
  DerivedFromZero =>
    IF last.op \in ValueVariants
    THEN last.out.tile_norms_ =
           IF last.perm = <<>>
           THEN ValueNorms(last.recv, last.factor, last.thr)
           ELSE TensorPermute(ValueNorms(last.recv, last.factor, last.thr),
                              last.perm)
    ELSE /\ AllZero(last.out)
         /\ \A i \in 1..Len(Norms(last.out)) :
              is_zero(last.out, i) <=> Less(Zero, threshold_)

\* add(-1) on an all-zero shape of rank 3 left norms that are not zero
C16_Witness ==
  /\ DerivedFromZero
  /\ last.op \in ValueVariants
  /\ Rank(last.recv) = 3
  /\ last.factor = Rat(-1, 1)
  /\ ~AllZero(last.out)

\* C17: S.perm(p) holds the size vector of dimension d of S at position p[d],
\* and S.perm(p).perm(p^-1) has the norms of S at every tile index and the
\* size vectors of S.
C17_PermRoundTrip ==
  last.op = "perm" =>
    LET back == perm(last.out, PermInverse(last.perm)) IN
    /\ \A d \in 1..Rank(last.recv) :
         last.out.size_vectors_[last.perm[d]] = last.recv.size_vectors_[d]
    /\ back.size_vectors_ = last.recv.size_vectors_
    /\ back.tile_norms_.range = last.recv.tile_norms_.range
    /\ \A o \in 1..Len(Norms(last.recv)) :
         Norms(back)[o] = Norms(last.recv)[o]

\* a permutation of a rank-3 shape that is not its own inverse and changes
\* both the order of the norms and the order of the size vectors
C17_Witness ==
  /\ last.op = "perm"
  /\ Rank(last.recv) = 3
  /\ PermInverse(last.perm) # last.perm
  /\ Norms(last.out) # Norms(last.recv)
  /\ last.out.size_vectors_ # last.recv.size_vectors_

\* C18: for a non-empty shape S, S.scale(1) has exactly the norms and size
\* vectors of S, S.scale(0) has every norm 0 and the size vectors of S, and
\* scale(a) and scale(-a) return equal shapes.
C18_ScaleIdentities ==
  last.op = "scale" =>
    /\ (last.factor = One) => (last.out = last.recv)
    /\ (last.factor = Zero) =>
         /\ AllZero(last.out)
         /\ last.out.tile_norms_.range = last.recv.tile_norms_.range
         /\ last.out.size_vectors_ = last.recv.size_vectors_
    /\ last.out = scale(last.recv, Times(Rat(-1, 1), last.factor))

\* the last call is scale(a) on a rank-1 shape that the public constructor
\* has just built, under the threshold of the construction
ScaleOfConstructed ==
  /\ last.op = "scale"
  /\ last.orig.norms # <<>>
  /\ Len(last.orig.trange) = 1
  /\ last.orig.thr = last.thr

\* the raw norm r[i] over the tile size N[i] of the constructor arguments
RawOverSize(orig, i) ==
  Over(orig.norms[i], FromInt(orig.trange[1][i + 1] - orig.trange[1][i]))

\* C19 as claimed: under one threshold t, scale(a) of a rank-1 shape built
\* from raw norms r over tile sizes N stores |a| * r[i] / N[i] at tile i when
\* that value is >= t and 0 otherwise.
C19_ScaleOfRaw ==
  ScaleOfConstructed =>
    \A i \in 1..Len(Norms(last.out)) :
      LET y == Times(StdAbs(last.factor), RawOverSize(last.orig, i))
      IN Norms(last.out)[i] = IF Less(y, last.thr) THEN Zero ELSE y

\* C19 amended: the constructor already zeroes r[i] / N[i] below t, so
\* scale(a) stores |a| * r[i] / N[i] at tile i when both r[i] / N[i] >= t and
\* |a| * r[i] / N[i] >= t, and 0 otherwise.
C19_ScaleOfNormalized ==
  ScaleOfConstructed =>
    \A i \in 1..Len(Norms(last.out)) :
      LET x == RawOverSize(last.orig, i)
          y == Times(StdAbs(last.factor), x)
      IN Norms(last.out)[i] =
           IF Less(x, last.thr) \/ Less(y, last.thr) THEN Zero ELSE y

\* the example of the claim: t = 0.1, r = [0.5, 0.3, 0.05], N = [10, 10, 10],
\* a = 2, where the result is [0, 0, 0]
C19_Witness ==
  /\ ScaleOfConstructed
  /\ last.thr = Rat(1, 10)
  /\ last.orig.norms = <<Rat(1, 2), Rat(3, 10), Rat(1, 20)>>
  /\ last.orig.trange = <<<<0, 10, 20, 30>>>>
  /\ last.factor = Rat(2, 1)
  /\ Norms(last.out) = <<Zero, Zero, Zero>>

\* the last call is gemm(other, factor, gemm_helper) with no contracted
\* dimension: the result has all the dimensions of both operands
GemmOuter ==
  /\ last.op = "gemm"
  /\ Rank(last.out) = Rank(last.recv) + Rank(last.other)

\* C20: gemm with no contracted dimension stores |alpha| * left[m] * right[n]
\* at output tile (m, n), or 0 when that product is below the threshold, and
\* the size vectors of the result are those of the left operand followed by
\* those of the right operand.
C20_GemmOuterProduct ==
  GemmOuter =>
    LET M == Len(Norms(last.recv))
        N == Len(Norms(last.other))
    IN
    /\ Len(Norms(last.out)) = M * N
    /\ \A m \in 1..M : \A n \in 1..N :
         LET x == Times(StdAbs(last.factor),
                        Times(Norms(last.recv)[m], Norms(last.other)[n]))
         IN Norms(last.out)[(m - 1) * N + n] =
              IF Less(x, last.thr) THEN Zero ELSE x
    /\ last.out.size_vectors_ =
         last.recv.size_vectors_ \o last.other.size_vectors_

\* the example of the claim: left [1, 2], right [3, 4], alpha = 1 and
\* threshold 0 give [[3, 4], [6, 8]]
C20_Witness ==
  /\ GemmOuter
  /\ last.thr = Zero
  /\ last.factor = One
  /\ Norms(last.recv) = <<FromInt(1), FromInt(2)>>
  /\ Norms(last.other) = <<FromInt(3), FromInt(4)>>
  /\ last.out.tile_norms_.range = <<2, 2>>
  /\ Norms(last.out) = <<FromInt(3), FromInt(4), FromInt(6), FromInt(8)>>

\* ---- ReduceTask: what the later claims speak about ----

\* no ready() call is under way and no reducer task is spawned, queued or
\* running
NoReducer ==
  /\ \A i \in Args : rpc[i] \in {"none", "done"}
  /\ ActiveTasks = {}

\* reducer task k is inside the drain loop reduce(result)
InDrainLoop(k) ==
  task[k].pc \in {"lock", "cs", "lop", "ldestroy", "ldec", "lmerge"}

\* the number of dec() calls at the end of the body of reducer task k
BodyDecs(k) == IF task[k].kind = "result_object" THEN 1 ELSE 2

\* C22: whenever outstanding is zero, so that the terminal step runs,
\* ready_result_ holds the single surviving partial result (the fold of all
\* added arguments), ready_object_ is empty and no reducer task is queued or
\* running; a reducer task that holds an unparked result keeps outstanding
\* above zero, and the assertion of run() never fails.
C22_TerminalState ==
  /\ "run" \notin err
  /\ \A k \in Args : (task[k].result # <<>>) => outstanding >= 1
  /\ (outstanding = 0) =>
       /\ ready_result_ = <<FoldArgs(count_)>>
       /\ ready_object_ = 0
       /\ NoReducer

\* the terminal step is about to run on the merge of partial results
C22_Witness ==
  /\ outstanding = 0
  /\ implq = "queued"
  /\ count_ >= 3
  /\ nMerge >= 1
  /\ ready_result_ # <<>>

\* C23 as claimed: a reducer task body has made its decrements of
\* outstanding for the arguments it was spawned with before it enters the
\* drain loop.
C23_DecBeforeDrain ==
  \A k \in Args : InDrainLoop(k) => task[k].ndec = 0

\* a step decrements outstanding on behalf of the body of reducer task k
BodyDec(k) == task'[k].ndec < task[k].ndec

\* C23 as amended: a reducer task body performs op, then the destroy of each
\* argument it was spawned with, then the drain loop, and only after the loop
\* has parked the result its decrements: one in reduce_result_object, two in
\* reduce_object_object.
C23_DecAfterDrain ==
  /\ [](\A k \in Args :
          /\ InDrainLoop(k) =>
               /\ task[k].ndec = BodyDecs(k)
               /\ task[k].objs = <<>>
          /\ (task[k].pc = "done") => (task[k].ndec = 0))
  /\ [][\A k \in Args :
          BodyDec(k) => /\ task[k].result = <<>>
                        /\ task[k].objs = <<>>
                        /\ outstanding' = outstanding - 1]_vars

\* a reduce_object_object task is inside the drain loop, about to merge a
\* parked result, with both decrements still to come and both its arguments
\* destroyed
C23_Witness ==
  \E k \in Args :
    /\ task[k].kind = "object_object"
    /\ task[k].pc = "lmerge"
    /\ task[k].ndec = 2
    /\ task[k].objs = <<>>

\* a step in which the ReduceObject of argument i calls parent_->ready(this)
Signals(i) == rpc[i] # "lock" /\ rpc'[i] = "lock"

\* C24: the ReduceObject of every added argument calls parent_->ready(this)
\* exactly once, in the step in which the last of its futures is set (or in
\* add() when all are set already), in single and in pair mode and in every
\* order of the set events; op reads only arguments whose futures are all
\* set.
C24_ReadyOnce ==
  /\ [](\A i \in Args :
          /\ (rpc[i] # "none") <=> (i \in Added /\ arg[i].pend = {})
          /\ (consumed[i] > 0) => (arg[i].pend = {})
          /\ \A k \in Args : \A j \in 1..Len(task[k].objs) :
               arg[task[k].objs[j]].pend = {})
  /\ [][\A i \in Args : Signals(i) => rpc[i] = "none"]_vars

\* pair mode: one argument has been reduced while another, added with one
\* future set, still waits for the other future
C24_Witness ==
  /\ arity = 2
  /\ \E i \in Args : consumed[i] = 1 /\ destroyed[i] = 1
  /\ \E j \in Args : Cardinality(arg[j].pend) = 1 /\ rpc[j] = "none"
  /\ ~allSync

\* 1 while submit() has not released the initial dependency of the task
Sentinel == IF pimpl_ THEN 1 ELSE 0

\* the added arguments that no op invocation has read yet
Unconsumed == {i \in Added : consumed[i] = 0}

\* the decrements reducer task k still has to make for arguments that have
\* been consumed already: those of its body once its first op invocation has
\* returned, and the one of the drain loop between op and dec()
OwedBy(k) ==
  (IF task[k].pc \in {"none", "op", "done"} THEN 0 ELSE task[k].ndec)
  + (IF task[k].pc \in {"ldestroy", "ldec"} THEN 1 ELSE 0)

RECURSIVE SumOwed(_)
SumOwed(n) == IF n = 0 THEN 0 ELSE OwedBy(n) + SumOwed(n - 1)

\* C26 as claimed: outstanding is the sentinel (1 until submit) plus the
\* number of added arguments not yet consumed, so it is zero exactly when
\* submit() has released the sentinel and every added argument has been
\* consumed.
C26_OutstandingExact ==
  /\ outstanding = Sentinel + Cardinality(Unconsumed)
  /\ (outstanding = 0) <=> (~pimpl_ /\ Unconsumed = {})

\* C26 as amended: outstanding is the sentinel plus the added arguments not
\* yet consumed plus the consumed arguments whose decrement a reducer task
\* has still to make; it is zero only after submit() with every added
\* argument consumed and destroyed, and it equals sentinel plus unconsumed
\* arguments whenever no reducer task is queued or running.
C26_OutstandingLags ==
  /\ outstanding = Sentinel + Cardinality(Unconsumed) + SumOwed(MaxArgs)
  /\ (outstanding = 0) =>
       (~pimpl_ /\ \A i \in Added : consumed[i] = 1 /\ destroyed[i] = 1)
  /\ NoReducer => outstanding = Sentinel + Cardinality(Unconsumed)

\* after submit() every added argument has been consumed, and outstanding is
\* still 2 because a reduce_object_object task has not returned
C26_Witness ==
  /\ ~pimpl_
  /\ count_ >= 3
  /\ Unconsumed = {}
  /\ outstanding = 2
  /\ \E k \in Args : task[k].kind = "object_object" /\ task[k].ndec = 2

\* a step of the ready() call of argument i
ReadyStep(i) == rpc[i] \in {"lock", "cs", "add"} /\ rpc'[i] # rpc[i]

\* a step in which op is invoked
OpStep == consumed' # consumed \/ nFused' # nFused \/ nMerge' # nMerge

\* what the critical section of ready(i) does in each slot configuration:
\* with a parked result it claims the result for one reduce_result_object
\* task, else with a parked argument it claims that argument for one
\* reduce_object_object task, else it parks i
ReadyOutcome(i) ==
  /\ \A k \in Args \ {i} : task'[k] = task[k]
  /\ IF ready_result_ # <<>>
     THEN /\ task'[i].kind = "result_object"
          /\ task'[i].result = ready_result_
          /\ task'[i].objs = <<i>>
          /\ task'[i].attr = "hipri"
          /\ ready_result_' = <<>>
          /\ ready_object_' = ready_object_
     ELSE IF ready_object_ # 0
     THEN /\ task'[i].kind = "object_object"
          /\ task'[i].objs = <<i, ready_object_>>
          /\ task'[i].attr = "hipri"
          /\ ready_object_' = 0
          /\ ready_result_' = ready_result_
     ELSE /\ task'[i] = task[i]
          /\ ready_object_' = i
          /\ ready_result_' = ready_result_
          /\ rpc'[i] = "done"

\* what every step of a ready() call does and does not do
ReadyDiscipline ==
  /\ \A i \in Args :
       ReadyStep(i) =>
         /\ UNCHANGED <<consumed, destroyed, events, nFused, nMerge, outstanding,
                        result_>>
         /\ (rpc[i] = "cs") => ReadyOutcome(i)
         /\ (rpc[i] = "add") => (~Queued(i) /\ Queued(i)' /\ task'[i] = task[i])
  /\ OpStep =>
       /\ rpc' = rpc
       /\ \E k \in Args :
            /\ Queued(k)
            /\ task[k].pc \in {"op", "lop", "lmerge"}
            /\ task'[k] # task[k]

\* C27: ready(a), called from add() or from a future's callback, never
\* invokes op and never waits for another argument: once it has the lock it
\* parks a in ready_object_ or hands a, with the parked result or the parked
\* argument, to exactly one high-priority reducer task, and returns; op is
\* invoked only by reducer tasks taken from the task queue.
C27_ReadyNeverReduces ==
  /\ [][ReadyDiscipline]_vars
  /\ [](\A i \in Args :
          /\ (rpc[i] = "lock" /\ lock_ = 0) => ENABLED ReadyLock(i)
          /\ (rpc[i] = "cs") => ENABLED ReadyCS(i)
          /\ (rpc[i] = "add") => ENABLED ReadyAdd(i))
  /\ \A i \in Args : (rpc[i] = "lock") ~> (rpc[i] = "done")

\* a ready() call from a future's callback has handed its argument and the
\* parked argument to a reduce_object_object task and is about to return,
\* while a reduce_result_object task is running
C27_Witness ==
  /\ \E i \in Args : /\ rpc[i] = "add"
                     /\ task[i].kind = "object_object"
                     /\ mainpc # "add"
  /\ \E k \in Args : Queued(k) /\ task[k].kind = "result_object"
                     /\ task[k].pc # "done"
  /\ ready_object_ = 0

\* no ready() call has been through its critical section yet
NoneReadyYet == \A i \in Args : rpc[i] \in {"none", "lock", "cs"}

\* the step of the first ready() call through its critical section hands its
\* argument and the identity to a reduce_result_object task
FirstReady ==
  \A i \in Args :
    (NoneReadyYet /\ rpc[i] = "cs" /\ rpc'[i] # "cs") =>
      /\ task'[i].kind = "result_object"
      /\ task'[i].result = <<OpIdentity>>
      /\ task'[i].objs = <<i>>
      /\ ready_object_' = 0

\* C28: a ReduceTask starts with ready_result_ holding op() and ready_object_
\* empty, so the first argument to become ready goes with that identity to
\* reduce_result_object and is not parked; with exactly one added argument
\* the result future receives the post-processing of the identity folded
\* with it, computed by one single-argument op invocation, no fused and no
\* result-merge invocation.
C28_FirstOnIdentity ==
  /\ [](NoneReadyYet => /\ ready_result_ = <<OpIdentity>>
                        /\ ready_object_ = 0
                        /\ \A k \in Args : task[k] = NoTask)
  /\ [][FirstReady]_vars
  /\ []((Finished /\ count_ = 1) =>
          /\ result_ = <<OpPost(op_, OpArg(op_, OpIdentity, arg[1].val))>>
          /\ ConsumingOps = 1
          /\ consumed[1] = 1
          /\ nFused = 0
          /\ nMerge = 0)

\* a pair-mode task with one argument, added before its futures were set,
\* has set its result
C28_Witness ==
  /\ Finished
  /\ count_ = 1
  /\ arity = 2
  /\ ~allSync
  /\ result_ = <<[empty |-> FALSE, val |-> ArgValue(1), perm |-> TRUE]>>
  /\ task[1].kind = "result_object"

\* the sum of the values of the arguments in S
RECURSIVE ArgSum(_)
ArgSum(S) ==
  IF S = {} THEN 0
  ELSE LET i == CHOOSE x \in S : TRUE IN arg[i].val + ArgSum(S \ {i})

\* a partial result into which at least one argument has been folded: it is
\* not the tile op() returns, and its value is the sum of some arguments
Folded(r) == /\ r # OpIdentity
             /\ r.empty = FALSE
             /\ r.val \in {ArgSum(S) : S \in (SUBSET Added) \ {{}}}

\* the step is a call op_(*result, *ready_result) of the drain loop
MergeStep(k) == task[k].pc = "lmerge" /\ task'[k].pc # "lmerge"

\* the operands of every merge have arguments folded into them
MergeOperands ==
  \A k \in Args : MergeStep(k) =>
    /\ Len(task[k].result) = 1 /\ Folded(task[k].result[1])
    /\ Len(task[k].rr) = 1 /\ Folded(task[k].rr[1])
    /\ nMerge' = nMerge + 1

\* C29: every merge op(result, other) of the drain loop has two operands
\* into each of which at least one argument has been folded; the identity of
\* the constructor, and the one op() makes at the start of
\* reduce_object_object, is never an operand of a merge: a result is parked
\* or taken into the loop only after an argument went into it
C29_MergeNeverOnIdentity ==
  /\ [][MergeOperands]_vars
  /\ [](\A k \in Args :
          /\ InDrainLoop(k) => (Len(task[k].result) = 1 /\ Folded(task[k].result[1]))
          /\ (task[k].rr # <<>>) => (task[k].pc = "lmerge" /\ Folded(task[k].rr[1])))
  /\ []((ready_result_ # <<>> /\ ~NoneReadyYet) => Folded(ready_result_[1]))

C29_Witness ==
  /\ nMerge >= 1
  /\ \E k \in Args :
       /\ task[k].kind = "object_object"
       /\ task[k].pc = "lock"
       /\ task[k].result = <<FoldArgs(3)>>
  /\ \A i \in Args : consumed[i] = 1

\* the places that hold a partial result: the slot ready_result_, the result
\* of a reducer task (from the moment ready() takes it for the task), and the
\* other result a task took out of the slot for a merge
ResultHolders ==
  {h \in {"slot"} \X {0} : ready_result_ # <<>>}
    \cup {h \in {"result"} \X Args : task[h[2]].result # <<>>}
    \cup {h \in {"merge"} \X Args : task[h[2]].rr # <<>>}

\* the partial result a holder holds
ResultAt(h) ==
  IF h[1] = "slot" THEN ready_result_[1]
  ELSE IF h[1] = "result" THEN task[h[2]].result[1]
  ELSE task[h[2]].rr[1]

\* the arguments folded into a partial result (argument values are distinct
\* powers of two)
ArgsIn(r) == {i \in Args : (r.val \div ArgValue(i)) % 2 = 1}

\* the places that hold argument i: the slot ready_object_, the arguments a
\* reducer task was spawned with, and the object a task took out in its loop
ArgHolders(i) ==
  {h \in {"slot"} \X {0} \X {0} : ready_object_ = i}
    \cup {h \in {"objs"} \X Args \X (1..2) :
            /\ h[3] <= Len(task[h[2]].objs)
            /\ task[h[2]].objs[h[3]] = i}
    \cup {h \in {"cur"} \X Args \X {0} : task[h[2]].cur = i}

\* argument i went through the critical section of ready() and its
\* ReduceObject has not been destroyed
ReadyArg(i) == rpc[i] \in {"add", "done"} /\ destroyed[i] = 0

\* C30: each partial result is parked in ready_result_ or held by one
\* reducer task, never both and never by two, and each ready argument is
\* parked in ready_object_ or held by one reducer task; so every argument is
\* read by one op invocation and no two invocations work on one result
C30_SingleOwner ==
  /\ Cardinality(ResultHolders) = 1 + nFused - nMerge
  /\ \A g, h \in ResultHolders : g # h => ArgsIn(ResultAt(g)) \cap ArgsIn(ResultAt(h)) = {}
  /\ UNION {ArgsIn(ResultAt(h)) : h \in ResultHolders} = {i \in Args : consumed[i] > 0}
  /\ \A i \in Args :
       /\ Cardinality(ArgHolders(i)) = IF ReadyArg(i) THEN 1 ELSE 0
       /\ consumed[i] <= 1
  /\ \A k \in Args : task[k].rr # <<>> => task[k].result # <<>>

C30_Witness ==
  \E k, n \in Args :
    /\ k # n
    /\ task[k].kind = "result_object" /\ task[k].pc = "destroy"
    /\ task[n].kind = "object_object" /\ task[n].pc = "destroy"
    /\ Len(task[n].objs) = 2
    /\ Cardinality(ResultHolders) = 2

\* s is an initial part of t
IsPrefix(s, t) == Len(s) <= Len(t) /\ s = SubSeq(t, 1, Len(s))

\* the life of a ReduceObject after ready(): read by one op invocation, then
\* destroy, which notifies the callback if there is one and deletes
LifeOf(cb) == <<"op">> \o DestroyEvents(cb)

\* number of notifications of the callback of argument i
Notified(i) == Cardinality({n \in 1..Len(events[i]) : events[i][n] = "notify"})

\* C25: the completion callback given with an argument is notified exactly
\* once, after the op invocation that reads the argument has returned and
\* before the argument is deleted; it is not notified for an argument that
\* has not been consumed, and no op reads the argument afterwards
C25_CallbackOnceAfterOp ==
  /\ \A i \in Args :
       /\ IsPrefix(events[i], LifeOf(arg[i].cb))
       /\ Notified(i) = IF arg[i].cb /\ destroyed[i] > 0 THEN 1 ELSE 0
       /\ (Notified(i) > 0) => (consumed[i] = 1 /\ events[i][1] = "op")
       /\ (i \notin Added) => events[i] = <<>>
  /\ Finished => \A i \in Added : events[i] = LifeOf(arg[i].cb)

C25_Witness ==
  \E i, j, n \in Args :
    /\ arg[i].cb /\ events[i] = <<"op", "notify", "delete">>
    /\ arg[j].cb /\ events[j] = <<"op">>
    /\ task[i].kind = "object_object" /\ task[i].pc = "destroy"
    /\ task[i].objs = <<j>>
    /\ n \in Added /\ ~arg[n].cb /\ events[n] = <<"op", "delete">>

\* ---- SparseShape: sharing ----

\* every buffer that exists keeps its contents in the step
BuffersKept == \A id \in 1..Len(heap) : Len(heap') >= id /\ heap'[id] = heap[id]

\* the step is a SparseShape call on a, with b as its shape argument
ShapeCallStep == nops' = nops + 1

\* the call leaves the receiver and the argument as they were: the same
\* buffers with the same norms and sizes
OperandsKept ==
  ShapeCallStep =>
    /\ client'.a = client.a /\ client'.b = client.b
    /\ client.a # NullShape =>
         (heap'[client.a.norms] = heap[client.a.norms]
            /\ heap'[client.a.sizes] = heap[client.a.sizes])
    /\ client.b # NullShape =>
         (heap'[client.b.norms] = heap[client.b.norms]
            /\ heap'[client.b.sizes] = heap[client.b.sizes])

\* some buffer is shared by two of the client's shapes
SharesNorms(x, y) == client[x].norms # 0 /\ client[x].norms = client[y].norms
SharesSizes(x, y) == client[x].sizes # 0 /\ client[x].sizes = client[y].sizes

\* C21: no SparseShape operation (perm, scale, add, subt, mult, gemm,
\* is_zero, sparsity, validate) changes the norms or the size vectors of its
\* receiver or of its shape argument, also when shapes share buffers through
\* a shallow copy or through a shared size-vector array, and the public
\* constructor does not change the norm tensor the caller passed
C21_FrameEffect ==
  /\ [][BuffersKept /\ OperandsKept]_vars
  /\ [](client.input # 0 =>
          /\ heap[client.input].range = TilesRange(client.trange)
          /\ \E in \in CtorInputs : heap[client.input] = in.norms)

C21_Witness ==
  /\ SharesNorms("a", "b")
  /\ SharesSizes("a", "r")
  /\ ~SharesNorms("a", "r")
  /\ client.ret = <<"mult">>
  /\ heap[client.a.norms] # heap[client.input]
  /\ heap[client.r.norms] # heap[client.a.norms]

====
